---- MODULE Spec2Model ----
(***************************************************************************)
(* Model of api/index.py: a Flask endpoint that verifies Slack's request   *)
(* signature, routes the verified payload and, for a message event, runs   *)
(* parse_and_append on a separate thread, which appends one row to a       *)
(* Google Sheet.                                                           *)
(*                                                                         *)
(* Text is a sequence of one-character strings.  An optional text (a       *)
(* header that may be absent, a value that may be None) is a record        *)
(* [some, s].                                                              *)
(***************************************************************************)
EXTENDS Integers, Sequences, FiniteSets, TLC

\* ------------------------------------------------------------------ bounds
\* Requests the endpoint receives in one behaviour.
MaxRequests == 2
\* Clock ticks that elapse in one behaviour.
MaxTicks == 1
\* The clock's resolution: time.time() is a float, the clock counts
\* 1/TicksPerSecond seconds.
TicksPerSecond == 2
\* The wall-clock second at which behaviours start.
StartSecond == 1000

\* ------------------------------------------------------------ text helpers
None == [some |-> FALSE, s |-> <<>>]
Str(s) == [some |-> TRUE, s |-> s]

\* Python's "not x" for x a str or None.
Falsy(x) == ~x.some \/ x.s = <<>>

Digits == {"0", "1", "2", "3", "4", "5", "6", "7", "8", "9"}
Whitespace == {" ", "\n", "\t", "\r"}

\* The first position from i on whose character is in set (is not in set);
\* Len(s) + 1 when there is none.
FirstIn(s, i, set) ==
    CHOOSE j \in i..(Len(s) + 1) :
        /\ j = Len(s) + 1 \/ s[j] \in set
        /\ \A k \in i..(j - 1) : s[k] \notin set
FirstNotIn(s, i, set) ==
    CHOOSE j \in i..(Len(s) + 1) :
        /\ j = Len(s) + 1 \/ s[j] \notin set
        /\ \A k \in i..(j - 1) : s[k] \in set
\* The last position up to i whose character is not in set; 0 when none.
LastNotIn(s, i, set) ==
    CHOOSE j \in 0..i :
        /\ j = 0 \/ s[j] \notin set
        /\ \A k \in (j + 1)..i : s[k] \in set

DigitValue(c) ==
    CASE c = "0" -> 0 [] c = "1" -> 1 [] c = "2" -> 2 [] c = "3" -> 3
      [] c = "4" -> 4 [] c = "5" -> 5 [] c = "6" -> 6 [] c = "7" -> 7
      [] c = "8" -> 8 [] c = "9" -> 9

DigitChar(d) ==
    CASE d = 0 -> "0" [] d = 1 -> "1" [] d = 2 -> "2" [] d = 3 -> "3"
      [] d = 4 -> "4" [] d = 5 -> "5" [] d = 6 -> "6" [] d = 7 -> "7"
      [] d = 8 -> "8" [] d = 9 -> "9"

\* Decimal text of a natural number (used to write timestamp headers).
RECURSIVE NatToStr(_)
NatToStr(n) == IF n < 10 THEN <<DigitChar(n)>>
               ELSE NatToStr(n \div 10) \o <<DigitChar(n % 10)>>

\* Characters outside ASCII, as a latin-1 decoded header can carry them.
NonAscii == {"\\xe1", "\\xff"}
\* A byte that is not valid UTF-8 in a request body.
InvalidUtf8Byte == "\\xff"

\* str.strip(): leading and trailing whitespace removed.
Strip(s) == SubSeq(s, FirstNotIn(s, 1, Whitespace), LastNotIn(s, Len(s), Whitespace))

\* Value of a run of decimal digits, single underscores between digits skipped.
RECURSIVE DigitsValue(_, _)
DigitsValue(s, acc) ==
    IF s = <<>> THEN acc
    ELSE IF Head(s) = "_" THEN DigitsValue(Tail(s), acc)
    ELSE DigitsValue(Tail(s), 10 * acc + DigitValue(Head(s)))

\* int(text): surrounding whitespace, an optional sign, decimal digits with
\* single underscores between them; anything else raises ValueError (ok FALSE).
ParseInt(text) ==
    LET t == Strip(text)
        signed == t # <<>> /\ Head(t) \in {"+", "-"}
        d == IF signed THEN Tail(t) ELSE t
        wellFormed ==
            /\ d # <<>>
            /\ \A i \in 1..Len(d) : d[i] \in Digits \cup {"_"}
            /\ d[1] # "_" /\ d[Len(d)] # "_"
            /\ \A i \in 1..(Len(d) - 1) : ~(d[i] = "_" /\ d[i + 1] = "_")
    IN IF ~wellFormed THEN [ok |-> FALSE, v |-> 0]
       ELSE [ok |-> TRUE,
             v |-> IF signed /\ Head(t) = "-" THEN 0 - DigitsValue(d, 0)
                   ELSE DigitsValue(d, 0)]

Abs(x) == IF x < 0 THEN 0 - x ELSE x

\* ------------------------------------------------- signature verification
\* 60 * 5 at line 48: the replay window in seconds.
ReplayWindow == 300

\* hmac.new(key, msg, sha256).hexdigest() as an abstract injective function:
\* the digest text determines (key, msg), since no key holds a ";".
HexDigest(key, msg) == <<"h", "(">> \o key \o <<";">> \o msg \o <<")">>

\* f"v0:{timestamp}:{request_body}"
Basestring(timestamp, request_body) ==
    <<"v", "0", ":">> \o timestamp \o <<":">> \o request_body

\* 'v0=' + hexdigest
MySignature(secret, timestamp, request_body) ==
    <<"v", "0", "=">> \o HexDigest(secret, Basestring(timestamp, request_body))

\* hmac.compare_digest on two str: TypeError when either holds a non-ASCII
\* character, else equality.
CompareDigest(a, b) ==
    IF \E i \in 1..Len(a) : a[i] \in NonAscii THEN "TypeError"
    ELSE IF \E i \in 1..Len(b) : b[i] \in NonAscii THEN "TypeError"
    ELSE IF a = b THEN "True" ELSE "False"

\* The window test of line 48 written with >= in place of >.
TimestampTooOldInclusive(t, req_timestamp) ==
    Abs(t - TicksPerSecond * req_timestamp) >= ReplayWindow * TicksPerSecond

\* The window test of line 48 with the clock at tick t.
TimestampTooOld(t, req_timestamp) ==
    Abs(t - TicksPerSecond * req_timestamp) > ReplayWindow * TicksPerSecond

\* The guard of line 42 without its test of the secret.
MissingInputsNoSecret(secret, timestamp, signature) ==
    Falsy(timestamp) \/ Falsy(signature)

\* Line 42.
MissingInputs(secret, timestamp, signature) ==
    Falsy(secret) \/ Falsy(timestamp) \/ Falsy(signature)

\* verify_slack_request(request_body, timestamp, signature), with the
\* module's SLACK_SIGNING_SECRET and the clock reading as parameters.
\* "True" / "False" are its return values, "TypeError" the exception that
\* leaves it.
VerifySlackRequest(request_body, timestamp, signature, secret, t) ==
    IF MissingInputs(secret, timestamp, signature) THEN "False"
    ELSE LET parsed == ParseInt(timestamp.s)
         IN IF ~parsed.ok THEN "False"
            ELSE IF TimestampTooOld(t, parsed.v) THEN "False"
            ELSE CompareDigest(MySignature(secret.s, timestamp.s, request_body),
                               signature.s)

\* ------------------------------------------------------------ json.loads
\* A decoded JSON value: t is its Python type ("str", "int", "float", "bool",
\* "NoneType", "dict", "list"), s the text of a str (or the literal of a
\* number or bool), kv the items of a dict, in order, as [k, v] records (the elements
\* of a list, with k empty).
JNone == [t |-> "NoneType", s |-> <<>>, kv |-> <<>>]
JStr(s) == [t |-> "str", s |-> s, kv |-> <<>>]
JInt(s) == [t |-> "int", s |-> s, kv |-> <<>>]
JFloat(s) == [t |-> "float", s |-> s, kv |-> <<>>]
JBool(s) == [t |-> "bool", s |-> s, kv |-> <<>>]
JDict(kv) == [t |-> "dict", s |-> <<>>, kv |-> kv]
JList(kv) == [t |-> "list", s |-> <<>>, kv |-> kv]

JFail == [ok |-> FALSE, v |-> JNone, next |-> 0]
JOk(v, next) == [ok |-> TRUE, v |-> v, next |-> next]

JsonWhitespace == {" ", "\n", "\t", "\r"}

SkipWs(s, i) == FirstNotIn(s, i, JsonWhitespace)

\* s[i..] starts with the literal lit.
StartsWith(s, i, lit) ==
    /\ i + Len(lit) - 1 <= Len(s)
    /\ \A j \in 1..Len(lit) : s[i + j - 1] = lit[j]

\* The characters of a JSON string from position i (after the opening quote)
\* up to its closing quote, acc being the part decoded so far.  The escapes
\* \n, \t, \", \\ and \/ are decoded; a raw control character or any other
\* escape is a JSONDecodeError.
RECURSIVE ScanString(_, _, _)
ScanString(s, i, acc) ==
    LET j == FirstIn(s, i, {"\"", "\\", "\n", "\t", "\r"})
        plain == acc \o SubSeq(s, i, j - 1)
    IN IF j > Len(s) THEN JFail
       ELSE IF s[j] = "\"" THEN JOk(JStr(plain), j + 1)
       ELSE IF s[j] # "\\" \/ j + 1 > Len(s) THEN JFail
       ELSE IF s[j + 1] = "n" THEN ScanString(s, j + 2, Append(plain, "\n"))
       ELSE IF s[j + 1] = "t" THEN ScanString(s, j + 2, Append(plain, "\t"))
       ELSE IF s[j + 1] \in {"\"", "\\", "/"}
            THEN ScanString(s, j + 2, Append(plain, s[j + 1]))
       ELSE JFail

\* The end of the run of digits that starts at i.
DigitsEnd(s, i) == FirstNotIn(s, i, Digits)

\* A number literal at i: -?(0|[1-9][0-9]*) is an int; with a fraction
\* (.[0-9]+) or an exponent ([eE][+-]?[0-9]+) it is a float.
ScanNumber(s, i) ==
    LET d == IF s[i] = "-" THEN i + 1 ELSE i
        e == DigitsEnd(s, d)
        hasFrac == e <= Len(s) /\ s[e] = "."
        f == IF hasFrac THEN DigitsEnd(s, e + 1) ELSE e
        hasExp == f <= Len(s) /\ s[f] \in {"e", "E"}
        x == IF hasExp /\ f + 1 <= Len(s) /\ s[f + 1] \in {"+", "-"} THEN f + 2 ELSE f + 1
        g == IF hasExp THEN DigitsEnd(s, x) ELSE f
    IN IF e = d THEN JFail
       ELSE IF s[d] = "0" /\ e > d + 1 THEN JOk(JInt(SubSeq(s, i, d)), d + 1)
       ELSE IF hasFrac /\ f = e + 1 THEN JOk(JInt(SubSeq(s, i, e - 1)), e)
       ELSE IF hasExp /\ g = x THEN
            IF hasFrac THEN JOk(JFloat(SubSeq(s, i, f - 1)), f)
            ELSE JOk(JInt(SubSeq(s, i, e - 1)), e)
       ELSE IF hasFrac \/ hasExp THEN JOk(JFloat(SubSeq(s, i, g - 1)), g)
       ELSE JOk(JInt(SubSeq(s, i, e - 1)), e)

RECURSIVE ScanValue(_, _)
RECURSIVE ScanMembers(_, _, _)
RECURSIVE ScanElements(_, _, _)

\* One JSON value at i (leading whitespace skipped): the value and the
\* position after it.
ScanValue(s, i0) ==
    LET i == SkipWs(s, i0)
    IN IF i > Len(s) THEN JFail
       ELSE IF s[i] = "\"" THEN ScanString(s, i + 1, <<>>)
       ELSE IF s[i] = "{" THEN
            LET j == SkipWs(s, i + 1)
            IN IF j <= Len(s) /\ s[j] = "}" THEN JOk(JDict(<<>>), j + 1)
               ELSE ScanMembers(s, j, <<>>)
       ELSE IF s[i] = "[" THEN
            LET j == SkipWs(s, i + 1)
            IN IF j <= Len(s) /\ s[j] = "]" THEN JOk(JList(<<>>), j + 1)
               ELSE ScanElements(s, j, <<>>)
       ELSE IF StartsWith(s, i, <<"n", "u", "l", "l">>) THEN JOk(JNone, i + 4)
       ELSE IF StartsWith(s, i, <<"t", "r", "u", "e">>)
            THEN JOk(JBool(<<"t", "r", "u", "e">>), i + 4)
       ELSE IF StartsWith(s, i, <<"f", "a", "l", "s", "e">>)
            THEN JOk(JBool(<<"f", "a", "l", "s", "e">>), i + 5)
       ELSE IF s[i] \in Digits \cup {"-"} THEN ScanNumber(s, i)
       ELSE JFail

\* "key": value pairs from i, up to and including the closing brace.
ScanMembers(s, i0, acc) ==
    LET i == SkipWs(s, i0)
    IN IF i > Len(s) \/ s[i] # "\"" THEN JFail
       ELSE LET k == ScanString(s, i + 1, <<>>)
            IN IF ~k.ok THEN JFail
               ELSE LET c == SkipWs(s, k.next)
                    IN IF c > Len(s) \/ s[c] # ":" THEN JFail
                       ELSE LET v == ScanValue(s, c + 1)
                            IN IF ~v.ok THEN JFail
                               ELSE LET e == SkipWs(s, v.next)
                                        item == [k |-> k.v.s, v |-> v.v]
                                    IN IF e > Len(s) THEN JFail
                                       ELSE IF s[e] = "}"
                                            THEN JOk(JDict(Append(acc, item)), e + 1)
                                       ELSE IF s[e] = ","
                                            THEN ScanMembers(s, e + 1, Append(acc, item))
                                       ELSE JFail

\* Array elements from i, up to and including the closing bracket.
ScanElements(s, i0, acc) ==
    LET v == ScanValue(s, i0)
    IN IF ~v.ok THEN JFail
       ELSE LET e == SkipWs(s, v.next)
                item == [k |-> <<>>, v |-> v.v]
            IN IF e > Len(s) THEN JFail
               ELSE IF s[e] = "]" THEN JOk(JList(Append(acc, item)), e + 1)
               ELSE IF s[e] = "," THEN ScanElements(s, e + 1, Append(acc, item))
               ELSE JFail

\* json.loads(text): ok FALSE is JSONDecodeError; text after the value is an
\* error ("Extra data").
JsonLoads(text) ==
    LET r == ScanValue(text, 1)
    IN IF ~r.ok THEN [ok |-> FALSE, v |-> JNone]
       ELSE IF SkipWs(text, r.next) <= Len(text) THEN [ok |-> FALSE, v |-> JNone]
       ELSE [ok |-> TRUE, v |-> r.v]

\* d.get(key, default) on a dict: the last item with that key wins, as
\* json.loads keeps the last of repeated keys.
RECURSIVE GetFrom(_, _, _, _)
GetFrom(kv, n, key, default) ==
    IF n = 0 THEN default
    ELSE IF kv[n].k = key THEN kv[n].v
    ELSE GetFrom(kv, n - 1, key, default)
Get(d, key, default) == GetFrom(d.kv, Len(d.kv), key, default)

\* Python truth value of a decoded JSON value.
Truthy(v) ==
    CASE v.t = "NoneType" -> FALSE
      [] v.t = "str" -> v.s # <<>>
      [] v.t = "int" -> ParseInt(v.s).v # 0
      [] v.t = "float" ->
            \E i \in 1..(FirstIn(v.s, 1, {"e", "E"}) - 1) : v.s[i] \in Digits \ {"0"}
      [] v.t = "bool" -> v.s = <<"t", "r", "u", "e">>
      [] OTHER -> v.kv # <<>>

\* v == "literal" for a decoded value v.
EqStr(v, lit) == v.t = "str" /\ v.s = lit

\* ------------------------------------------------------------ re patterns
UpperLetters == <<"A", "B", "C", "D", "E", "F", "G", "H", "I", "J", "K", "L", "M",
                  "N", "O", "P", "Q", "R", "S", "T", "U", "V", "W", "X", "Y", "Z">>
LowerLetters == <<"a", "b", "c", "d", "e", "f", "g", "h", "i", "j", "k", "l", "m",
                  "n", "o", "p", "q", "r", "s", "t", "u", "v", "w", "x", "y", "z">>

\* str.lower() on one character.
ToLower(c) == IF \E i \in 1..26 : UpperLetters[i] = c
              THEN LowerLetters[CHOOSE i \in 1..26 : UpperLetters[i] = c] ELSE c
ToUpper(c) == IF \E i \in 1..26 : LowerLetters[i] = c
              THEN UpperLetters[CHOOSE i \in 1..26 : LowerLetters[i] = c] ELSE c
Lower(s) == [i \in 1..Len(s) |-> ToLower(s[i])]

\* A pattern is a sequence of items; an item matches a run of characters of
\* one class: between min and (many: any number, else one) characters that
\* are in set (neg: that are not in set), greedy or lazy; cap marks the one
\* capturing group.
Item(set, neg, min, many, lazy, cap) ==
    [set |-> set, neg |-> neg, min |-> min, many |-> many, lazy |-> lazy, cap |-> cap]
One(set) == <<Item(set, FALSE, 1, FALSE, FALSE, FALSE)>>
Opt(set) == <<Item(set, FALSE, 0, FALSE, FALSE, FALSE)>>
Star(set) == <<Item(set, FALSE, 0, TRUE, FALSE, FALSE)>>
NotStar(set) == <<Item(set, TRUE, 0, TRUE, FALSE, FALSE)>>
GroupPlus(set) == <<Item(set, FALSE, 1, TRUE, FALSE, TRUE)>>
GroupNotPlus(set) == <<Item(set, TRUE, 1, TRUE, FALSE, TRUE)>>
GroupNotStarLazy(set) == <<Item(set, TRUE, 0, TRUE, TRUE, TRUE)>>
\* A literal, every character in the given case only.
Exact(chars) == [i \in 1..Len(chars) |-> Item({chars[i]}, FALSE, 1, FALSE, FALSE, FALSE)]
\* A literal under re.IGNORECASE.
AnyCase(chars) ==
    [i \in 1..Len(chars) |->
        Item({ToLower(chars[i]), ToUpper(chars[i])}, FALSE, 1, FALSE, FALSE, FALSE)]

InClass(c, it) == (c \in it.set) # it.neg

\* How many characters from position i on the item can take: the run of
\* characters in its class, one at most unless it repeats.
RunLength(it, text, i) ==
    LET stop == CHOOSE j \in i..(Len(text) + 1) :
                    /\ j = Len(text) + 1 \/ ~InClass(text[j], it)
                    /\ \A k \in i..(j - 1) : InClass(text[k], it)
    IN IF it.many \/ stop = i THEN stop - i ELSE 1

NoMatch == [ok |-> FALSE, group |-> <<>>, end |-> 0]

\* Items k.. of pattern p matched at position i of text; end is the position
\* after the match.  Of the counts item k can take, the regex engine keeps
\* the first, in its order of preference (the largest when greedy, the
\* smallest when lazy), with which the rest of the pattern matches.
RECURSIVE MatchFrom(_, _, _, _)
MatchFrom(p, k, text, i) ==
    IF k > Len(p) THEN [ok |-> TRUE, group |-> <<>>, end |-> i]
    ELSE LET tried == {[n |-> n, rest |-> MatchFrom(p, k + 1, text, i + n)] :
                          n \in p[k].min..RunLength(p[k], text, i)}
             good == {c \in tried : c.rest.ok}
             kept == IF p[k].lazy THEN CHOOSE c \in good : \A d \in good : c.n <= d.n
                     ELSE CHOOSE c \in good : \A d \in good : c.n >= d.n
         IN IF good = {} THEN NoMatch
            ELSE [ok |-> TRUE,
                  group |-> IF p[k].cap THEN SubSeq(text, i, i + kept.n - 1)
                            ELSE kept.rest.group,
                  end |-> kept.rest.end]

\* re.search(pattern, text) from position i: the leftmost match.
SearchFrom(p, text, i) ==
    LET found == {[begin |-> j, m |-> MatchFrom(p, 1, text, j)] : j \in i..(Len(text) + 1)}
        good == {c \in found : c.m.ok}
        first == CHOOSE c \in good : \A d \in good : c.begin <= d.begin
    IN IF good = {} THEN [ok |-> FALSE, group |-> <<>>, begin |-> 0, end |-> 0]
       ELSE [ok |-> TRUE, group |-> first.m.group, begin |-> first.begin,
             end |-> first.m.end]
Search(p, text) == SearchFrom(p, text, 1)

\* re.sub(pattern, r'\1', text): every match, left to right, replaced by
\* its group.  (No pattern here matches the empty text.)
RECURSIVE SubFrom(_, _, _)
SubFrom(p, text, i) ==
    LET m == SearchFrom(p, text, i)
    IN IF ~m.ok THEN SubSeq(text, i, Len(text))
       ELSE SubSeq(text, i, m.begin - 1) \o m.group \o SubFrom(p, text, m.end)
SubGroup(p, text) == SubFrom(p, text, 1)

\* The classes [0-9\s+()-] and [\d-].
PhoneChars == Digits \cup Whitespace \cup {"+", "(", ")", "-"}
DateChars == Digits \cup {"-"}

\* Lines 86-95 and 105.
CharterIdPattern ==
    Opt({"*"}) \o AnyCase(<<"C", "h", "a", "r", "t", "e", "r">>) \o Star(Whitespace)
    \o AnyCase(<<"I", "d">>) \o Opt({"*"}) \o NotStar(Digits) \o GroupPlus(Digits)
NamePattern ==
    Opt({"*"}) \o AnyCase(<<"N", "a", "m", "e">>) \o Opt({"*"}) \o Star(Whitespace)
    \o One({":"}) \o Star(Whitespace) \o GroupNotPlus({"\n"})
PhonePattern ==
    Opt({"*"}) \o AnyCase(<<"P", "h", "o", "n", "e">>) \o Opt({"*"}) \o NotStar(Digits)
    \o GroupPlus(PhoneChars)
PickUpDatePattern ==
    Opt({"*"}) \o AnyCase(<<"P", "i", "c", "k">>) \o Star(Whitespace)
    \o AnyCase(<<"u", "p">>) \o Star(Whitespace) \o AnyCase(<<"d", "a", "t", "e">>)
    \o Opt({"*"}) \o NotStar(Digits) \o GroupPlus(DateChars)
ReturnDatePattern ==
    Opt({"*"}) \o AnyCase(<<"R", "e", "t", "u", "r", "n">>) \o Star(Whitespace)
    \o AnyCase(<<"d", "a", "t", "e">>) \o Opt({"*"}) \o NotStar(Digits)
    \o GroupPlus(DateChars)
MailtoPattern ==
    Exact(<<"<", "m", "a", "i", "l", "t", "o", ":">>) \o NotStar({"\n"}) \o One({"|"})
    \o GroupNotStarLazy({"\n"}) \o One({">"})

\* needle in text (Python's "in" on str).
Contains(text, needle) ==
    \E i \in 1..(Len(text) - Len(needle) + 1) : StartsWith(text, i, needle)

CharterRequest ==
    <<"c", "h", "a", "r", "t", "e", "r", " ", "r", "e", "q", "u", "e", "s", "t">>

\* str.split(): the maximal runs of non-whitespace characters.
RECURSIVE SplitFrom(_, _)
SplitFrom(s, i) ==
    LET b == FirstNotIn(s, i, Whitespace)
        e == FirstIn(s, b, Whitespace)
    IN IF b > Len(s) THEN <<>>
       ELSE <<SubSeq(s, b, e - 1)>> \o SplitFrom(s, e)
Split(s) == SplitFrom(s, 1)

\* ---------------------------------------------------- message texts
\* every field present: "New charter request\nCharter Id: 1234\nName: Jane Doe\nPhone: 555-1234\nPick up date: 2024-05-01\nReturn date: 2024-05-09"
TextFull ==
    <<"N", "e", "w", " ", "c", "h", "a", "r", "t", "e", "r", " ", "r", "e", "q", "u",
      "e", "s", "t", "\n", "C", "h", "a", "r", "t", "e", "r", " ", "I", "d", ":", " ",
      "1", "2", "3", "4", "\n", "N", "a", "m", "e", ":", " ", "J", "a", "n", "e", " ",
      "D", "o", "e", "\n", "P", "h", "o", "n", "e", ":", " ", "5", "5", "5", "-", "1",
      "2", "3", "4", "\n", "P", "i", "c", "k", " ", "u", "p", " ", "d", "a", "t", "e",
      ":", " ", "2", "0", "2", "4", "-", "0", "5", "-", "0", "1", "\n", "R", "e", "t",
      "u", "r", "n", " ", "d", "a", "t", "e", ":", " ", "2", "0", "2", "4", "-", "0",
      "5", "-", "0", "9">>
\* no Return date label: "Charter Request\nCharter Id: 1234\nName: Jane Doe\nPhone: 555-1234\nPick up date: 2024-05-01"
TextNoReturn ==
    <<"C", "h", "a", "r", "t", "e", "r", " ", "R", "e", "q", "u", "e", "s", "t", "\n",
      "C", "h", "a", "r", "t", "e", "r", " ", "I", "d", ":", " ", "1", "2", "3", "4",
      "\n", "N", "a", "m", "e", ":", " ", "J", "a", "n", "e", " ", "D", "o", "e", "\n",
      "P", "h", "o", "n", "e", ":", " ", "5", "5", "5", "-", "1", "2", "3", "4", "\n",
      "P", "i", "c", "k", " ", "u", "p", " ", "d", "a", "t", "e", ":", " ", "2", "0",
      "2", "4", "-", "0", "5", "-", "0", "1">>
\* no "charter request": "lunch at noon?"
TextChat ==
    <<"l", "u", "n", "c", "h", " ", "a", "t", " ", "n", "o", "o", "n", "?">>
\* every required field, but no "charter request": "Charter Id: 1234\nName: Jane Doe\nPhone: 555-1234\nPick up date: 2024-05-01"
TextNoPrefix ==
    <<"C", "h", "a", "r", "t", "e", "r", " ", "I", "d", ":", " ", "1", "2", "3", "4",
      "\n", "N", "a", "m", "e", ":", " ", "J", "a", "n", "e", " ", "D", "o", "e", "\n",
      "P", "h", "o", "n", "e", ":", " ", "5", "5", "5", "-", "1", "2", "3", "4", "\n",
      "P", "i", "c", "k", " ", "u", "p", " ", "d", "a", "t", "e", ":", " ", "2", "0",
      "2", "4", "-", "0", "5", "-", "0", "1">>
\* no Charter Id label: "charter request\nName: Jane Doe\nPhone: 555-1234\nPick up date: 2024-05-01"
TextNoCharterId ==
    <<"c", "h", "a", "r", "t", "e", "r", " ", "r", "e", "q", "u", "e", "s", "t", "\n",
      "N", "a", "m", "e", ":", " ", "J", "a", "n", "e", " ", "D", "o", "e", "\n", "P",
      "h", "o", "n", "e", ":", " ", "5", "5", "5", "-", "1", "2", "3", "4", "\n", "P",
      "i", "c", "k", " ", "u", "p", " ", "d", "a", "t", "e", ":", " ", "2", "0", "2",
      "4", "-", "0", "5", "-", "0", "1">>
\* no Name label: "charter request\nCharter Id: 1234\nPhone: 555-1234\nPick up date: 2024-05-01"
TextNoName ==
    <<"c", "h", "a", "r", "t", "e", "r", " ", "r", "e", "q", "u", "e", "s", "t", "\n",
      "C", "h", "a", "r", "t", "e", "r", " ", "I", "d", ":", " ", "1", "2", "3", "4",
      "\n", "P", "h", "o", "n", "e", ":", " ", "5", "5", "5", "-", "1", "2", "3", "4",
      "\n", "P", "i", "c", "k", " ", "u", "p", " ", "d", "a", "t", "e", ":", " ", "2",
      "0", "2", "4", "-", "0", "5", "-", "0", "1">>
\* no Phone label: "charter request\nCharter Id: 1234\nName: Jane Doe\nPick up date: 2024-05-01\nReturn date: 2024-05-09"
TextNoPhone ==
    <<"c", "h", "a", "r", "t", "e", "r", " ", "r", "e", "q", "u", "e", "s", "t", "\n",
      "C", "h", "a", "r", "t", "e", "r", " ", "I", "d", ":", " ", "1", "2", "3", "4",
      "\n", "N", "a", "m", "e", ":", " ", "J", "a", "n", "e", " ", "D", "o", "e", "\n",
      "P", "i", "c", "k", " ", "u", "p", " ", "d", "a", "t", "e", ":", " ", "2", "0",
      "2", "4", "-", "0", "5", "-", "0", "1", "\n", "R", "e", "t", "u", "r", "n", " ",
      "d", "a", "t", "e", ":", " ", "2", "0", "2", "4", "-", "0", "5", "-", "0", "9">>
\* no Pick up date label: "charter request\nCharter Id: 1234\nName: Jane Doe\nPhone: 555-1234\nReturn date: 2024-05-09"
TextNoPickUp ==
    <<"c", "h", "a", "r", "t", "e", "r", " ", "r", "e", "q", "u", "e", "s", "t", "\n",
      "C", "h", "a", "r", "t", "e", "r", " ", "I", "d", ":", " ", "1", "2", "3", "4",
      "\n", "N", "a", "m", "e", ":", " ", "J", "a", "n", "e", " ", "D", "o", "e", "\n",
      "P", "h", "o", "n", "e", ":", " ", "5", "5", "5", "-", "1", "2", "3", "4", "\n",
      "R", "e", "t", "u", "r", "n", " ", "d", "a", "t", "e", ":", " ", "2", "0", "2",
      "4", "-", "0", "5", "-", "0", "9">>
\* the name wrapped in a mailto link, labels in emphasis markers: "charter request\n*Charter Id*: 77\n*Name*: <mailto:a@b.com|John Smith>\n*Phone*: +1 (555) 12\n*Pick up date*: 2024-05-01"
TextMailto ==
    <<"c", "h", "a", "r", "t", "e", "r", " ", "r", "e", "q", "u", "e", "s", "t", "\n",
      "*", "C", "h", "a", "r", "t", "e", "r", " ", "I", "d", "*", ":", " ", "7", "7",
      "\n", "*", "N", "a", "m", "e", "*", ":", " ", "<", "m", "a", "i", "l", "t", "o",
      ":", "a", "@", "b", ".", "c", "o", "m", "|", "J", "o", "h", "n", " ", "S", "m",
      "i", "t", "h", ">", "\n", "*", "P", "h", "o", "n", "e", "*", ":", " ", "+", "1",
      " ", "(", "5", "5", "5", ")", " ", "1", "2", "\n", "*", "P", "i", "c", "k", " ",
      "u", "p", " ", "d", "a", "t", "e", "*", ":", " ", "2", "0", "2", "4", "-", "0",
      "5", "-", "0", "1">>
\* the name wrapped in a link that is not a mailto link: "charter request\nCharter Id: 77\nName: <http://x.io|John Smith>\nPhone: 555\nPick up date: 2024-05-01"
TextHttpLink ==
    <<"c", "h", "a", "r", "t", "e", "r", " ", "r", "e", "q", "u", "e", "s", "t", "\n",
      "C", "h", "a", "r", "t", "e", "r", " ", "I", "d", ":", " ", "7", "7", "\n", "N",
      "a", "m", "e", ":", " ", "<", "h", "t", "t", "p", ":", "/", "/", "x", ".", "i",
      "o", "|", "J", "o", "h", "n", " ", "S", "m", "i", "t", "h", ">", "\n", "P", "h",
      "o", "n", "e", ":", " ", "5", "5", "5", "\n", "P", "i", "c", "k", " ", "u", "p",
      " ", "d", "a", "t", "e", ":", " ", "2", "0", "2", "4", "-", "0", "5", "-", "0",
      "1">>
\* a name of one word: "charter request\nCharter Id: 5\nName: Cher\nPhone: 555\nPick up date: 2024-05-01"
TextOneName ==
    <<"c", "h", "a", "r", "t", "e", "r", " ", "r", "e", "q", "u", "e", "s", "t", "\n",
      "C", "h", "a", "r", "t", "e", "r", " ", "I", "d", ":", " ", "5", "\n", "N", "a",
      "m", "e", ":", " ", "C", "h", "e", "r", "\n", "P", "h", "o", "n", "e", ":", " ",
      "5", "5", "5", "\n", "P", "i", "c", "k", " ", "u", "p", " ", "d", "a", "t", "e",
      ":", " ", "2", "0", "2", "4", "-", "0", "5", "-", "0", "1">>
\* a mailto link whose display text is blank: "charter request\nCharter Id: 5\nName: <mailto:a@b.com| >\nPhone: 555\nPick up date: 2024-05-01"
TextBlankLink ==
    <<"c", "h", "a", "r", "t", "e", "r", " ", "r", "e", "q", "u", "e", "s", "t", "\n",
      "C", "h", "a", "r", "t", "e", "r", " ", "I", "d", ":", " ", "5", "\n", "N", "a",
      "m", "e", ":", " ", "<", "m", "a", "i", "l", "t", "o", ":", "a", "@", "b", ".",
      "c", "o", "m", "|", " ", ">", "\n", "P", "h", "o", "n", "e", ":", " ", "5", "5",
      "5", "\n", "P", "i", "c", "k", " ", "u", "p", " ", "d", "a", "t", "e", ":", " ",
      "2", "0", "2", "4", "-", "0", "5", "-", "0", "1">>
\* a Phone label followed by no digit before the next field: "charter request\nCharter Id: 5\nName: Jane Doe\nPhone: none\nPick up date: 2024-05-01"
TextPhoneWords ==
    <<"c", "h", "a", "r", "t", "e", "r", " ", "r", "e", "q", "u", "e", "s", "t", "\n",
      "C", "h", "a", "r", "t", "e", "r", " ", "I", "d", ":", " ", "5", "\n", "N", "a",
      "m", "e", ":", " ", "J", "a", "n", "e", " ", "D", "o", "e", "\n", "P", "h", "o",
      "n", "e", ":", " ", "n", "o", "n", "e", "\n", "P", "i", "c", "k", " ", "u", "p",
      " ", "d", "a", "t", "e", ":", " ", "2", "0", "2", "4", "-", "0", "5", "-", "0",
      "1">>
\* the empty text: ""
TextEmpty ==
    <<>>


\* The message texts of the model.
Texts ==
    {TextFull, TextNoReturn, TextChat, TextNoPrefix, TextNoCharterId, TextNoName,
     TextNoPhone, TextNoPickUp, TextMailto, TextHttpLink, TextOneName,
     TextBlankLink, TextPhoneWords, TextEmpty}

\* ------------------------------------------------------- parse_and_append
Pad2(n) == <<DigitChar(n \div 10), DigitChar(n % 10)>>
Pad4(n) == <<DigitChar(n \div 1000), DigitChar((n \div 100) % 10)>> \o Pad2(n % 100)

\* datetime.fromtimestamp(secs).strftime("%Y-%m-%d %H:%M:%S") for secs >= 0,
\* the process's time zone being UTC: the proleptic Gregorian date of the
\* day number, then the time of day.
Strftime(secs) ==
    LET days == secs \div 86400
        rem == secs % 86400
        z == days + 719468
        era == z \div 146097
        doe == z - era * 146097
        yoe == (doe - doe \div 1460 + doe \div 36524 - doe \div 146096) \div 365
        doy == doe - (365 * yoe + yoe \div 4 - yoe \div 100)
        mp == (5 * doy + 2) \div 153
        d == doy - (153 * mp + 2) \div 5 + 1
        m == IF mp < 10 THEN mp + 3 ELSE mp - 9
        y == yoe + era * 400 + (IF m <= 2 THEN 1 ELSE 0)
    IN Pad4(y) \o <<"-">> \o Pad2(m) \o <<"-">> \o Pad2(d) \o <<" ">>
       \o Pad2(rem \div 3600) \o <<":">> \o Pad2((rem % 3600) \div 60)
       \o <<":">> \o Pad2(rem % 60)

\* required_patterns without its 'charter_id' entry.
RequiredPatternsNoCharterId ==
    << [key |-> "name", pattern |-> NamePattern],
       [key |-> "phone", pattern |-> PhonePattern],
       [key |-> "pick_up_date", pattern |-> PickUpDatePattern] >>

\* required_patterns without its 'phone' entry.
RequiredPatternsNoPhone ==
    << [key |-> "charter_id", pattern |-> CharterIdPattern],
       [key |-> "name", pattern |-> NamePattern],
       [key |-> "pick_up_date", pattern |-> PickUpDatePattern] >>

\* required_patterns, in the dict's order (lines 86-91).
RequiredPatterns ==
    << [key |-> "charter_id", pattern |-> CharterIdPattern],
       [key |-> "name", pattern |-> NamePattern],
       [key |-> "phone", pattern |-> PhonePattern],
       [key |-> "pick_up_date", pattern |-> PickUpDatePattern] >>

\* The first required pattern, in order, that re.search does not find in
\* the text (lines 100-110); 0 when all are found.
FirstMissing(text) ==
    CHOOSE k \in 0..Len(RequiredPatterns) :
        /\ k = 0 \/ ~Search(RequiredPatterns[k].pattern, text).ok
        /\ \A j \in 1..(IF k = 0 THEN Len(RequiredPatterns) ELSE k - 1) :
              Search(RequiredPatterns[j].pattern, text).ok

\* The value stored for a matched field (lines 103-106, 116).
FieldValue(key, group) ==
    IF key = "name" THEN SubGroup(MailtoPattern, Strip(group)) ELSE Strip(group)

\* The value stored for a field, given the result of re.search for its
\* pattern; the optional field of lines 113-120 is "" when not found.
FieldOfMatch(key, m) == IF m.ok THEN FieldValue(key, m.group) ELSE <<>>
Field(key, pattern, text) == FieldOfMatch(key, Search(pattern, text))

NoData ==
    [charter_id |-> <<>>, name |-> <<>>, phone |-> <<>>, pick_up_date |-> <<>>,
     return_date |-> <<>>, first_name |-> <<>>, last_name |-> <<>>,
     request_received_date |-> <<>>]

\* The dict after the loops of lines 100-120, for a text in which every
\* required pattern is found.
Matched(text) ==
    [NoData EXCEPT
        !.charter_id = Field("charter_id", CharterIdPattern, text),
        !.name = Field("name", NamePattern, text),
        !.phone = Field("phone", PhonePattern, text),
        !.pick_up_date = Field("pick_up_date", PickUpDatePattern, text),
        !.return_date = Field("return_date", ReturnDatePattern, text)]

\* Lines 122-130 with name_parts the words of a non-empty name.
WithNames(data, name_parts, secs) ==
    [data EXCEPT
        !.first_name = name_parts[1],
        !.last_name = IF Len(name_parts) > 1 THEN name_parts[Len(name_parts)] ELSE <<>>,
        !.request_received_date = Strftime(secs)]

\* Lines 122-133 on the dict of the loops: name_parts[0] raises IndexError
\* when the name is not empty and has no word.
Assemble(data, secs) ==
    IF data.name = <<>>
    THEN [outcome |-> "parsed",
          data |-> [data EXCEPT !.request_received_date = Strftime(secs)]]
    ELSE IF Split(data.name) = <<>> THEN [outcome |-> "IndexError", data |-> NoData]
    ELSE [outcome |-> "parsed", data |-> WithNames(data, Split(data.name), secs)]

\* parse_and_append without the test of lines 79-81.
ParseAndAppendResultNoPrefilter(message_text, secs) ==
    IF ~message_text.some THEN [outcome |-> "AttributeError", data |-> NoData]
    ELSE IF FirstMissing(message_text.s) # 0
         THEN [outcome |-> "parse_failed", data |-> NoData]
    ELSE Assemble(Matched(message_text.s), secs)

\* parse_and_append(message_text) up to its call of append_to_sheet:
\*   "AttributeError"  message_text is not a str (line 79 calls .lower())
\*   "ignored"         no "charter request" in the text (lines 79-81)
\*   "parse_failed"    a required pattern is not found (lines 107-110)
\*   "IndexError"      the name is not empty but has no word (line 124)
\*   "parsed"          append_to_sheet(data) is called (line 133)
ParseAndAppendResult(message_text, secs) ==
    IF ~message_text.some THEN [outcome |-> "AttributeError", data |-> NoData]
    ELSE IF ~Contains(Lower(message_text.s), CharterRequest)
         THEN [outcome |-> "ignored", data |-> NoData]
    ELSE IF FirstMissing(message_text.s) # 0
         THEN [outcome |-> "parse_failed", data |-> NoData]
    ELSE Assemble(Matched(message_text.s), secs)

\* ParseAndAppendResult on the thread arguments of the model, computed once:
\* the clock reading enters the result only as request_received_date.
ParseAndAppendTable ==
    {[arg |-> a, result |-> ParseAndAppendResult(a, 0)] :
        a \in {Str(text) : text \in Texts} \cup {None}}

\* The seconds the clock reads in a behaviour, and Strftime on each of them,
\* computed once.
ClockSeconds == StartSecond..(StartSecond + MaxTicks \div TicksPerSecond + 1)
StrftimeTable == {[secs |-> s, text |-> Strftime(s)] : s \in ClockSeconds}
StrftimeOf(secs) == (CHOOSE e \in StrftimeTable : e.secs = secs).text

\* The result r of second 0 as it is at second secs.
Stamped(r, secs) ==
    IF r.outcome # "parsed" THEN r
    ELSE [r EXCEPT !.data.request_received_date = StrftimeOf(secs)]
ParseAndAppendOf(message_text, secs) ==
    Stamped((CHOOSE e \in ParseAndAppendTable : e.arg = message_text).result, secs)

\* row_values with the two name columns in the other order.
RowValuesLastNameFirst(data) ==
    <<data.request_received_date, data.charter_id, data.last_name, data.first_name,
      data.phone, data.pick_up_date, data.return_date>>

\* row_values of lines 150-158.
RowValues(data) ==
    <<data.request_received_date, data.charter_id, data.first_name, data.last_name,
      data.phone, data.pick_up_date, data.return_date>>

\* ---------------------------------------------------- request bodies
\* the handshake: {"type":"url_verification","challenge":"abc123"}
BodyUrlVerification ==
    <<"{", "\"", "t", "y", "p", "e", "\"", ":", "\"", "u", "r", "l", "_", "v", "e",
      "r", "i", "f", "i", "c", "a", "t", "i", "o", "n", "\"", ",", "\"", "c", "h", "a",
      "l", "l", "e", "n", "g", "e", "\"", ":", "\"", "a", "b", "c", "1", "2", "3",
      "\"", "}">>
\* a handshake with no challenge: {"type":"url_verification"}
BodyUrlVerificationNoChallenge ==
    <<"{", "\"", "t", "y", "p", "e", "\"", ":", "\"", "u", "r", "l", "_", "v", "e",
      "r", "i", "f", "i", "c", "a", "t", "i", "o", "n", "\"", "}">>
\* a message posted by a bot: {"type":"event_callback","event":{"type":"message","bot_id":"B1","text":"Charter Request\\nCharter Id: 1234\\nName: Jane Doe\\nPhone: 555-1234\\nPick up date: 2024-05-01"}}
BodyBotMessage ==
    <<"{", "\"", "t", "y", "p", "e", "\"", ":", "\"", "e", "v", "e", "n", "t", "_",
      "c", "a", "l", "l", "b", "a", "c", "k", "\"", ",", "\"", "e", "v", "e", "n", "t",
      "\"", ":", "{", "\"", "t", "y", "p", "e", "\"", ":", "\"", "m", "e", "s", "s",
      "a", "g", "e", "\"", ",", "\"", "b", "o", "t", "_", "i", "d", "\"", ":", "\"",
      "B", "1", "\"", ",", "\"", "t", "e", "x", "t", "\"", ":", "\"", "C", "h", "a",
      "r", "t", "e", "r", " ", "R", "e", "q", "u", "e", "s", "t", "\\", "n", "C", "h",
      "a", "r", "t", "e", "r", " ", "I", "d", ":", " ", "1", "2", "3", "4", "\\", "n",
      "N", "a", "m", "e", ":", " ", "J", "a", "n", "e", " ", "D", "o", "e", "\\", "n",
      "P", "h", "o", "n", "e", ":", " ", "5", "5", "5", "-", "1", "2", "3", "4", "\\",
      "n", "P", "i", "c", "k", " ", "u", "p", " ", "d", "a", "t", "e", ":", " ", "2",
      "0", "2", "4", "-", "0", "5", "-", "0", "1", "\"", "}", "}">>
\* a message whose bot_id is the empty string: {"type":"event_callback","event":{"type":"message","bot_id":"","text":"lunch at noon?"}}
BodyEmptyBotId ==
    <<"{", "\"", "t", "y", "p", "e", "\"", ":", "\"", "e", "v", "e", "n", "t", "_",
      "c", "a", "l", "l", "b", "a", "c", "k", "\"", ",", "\"", "e", "v", "e", "n", "t",
      "\"", ":", "{", "\"", "t", "y", "p", "e", "\"", ":", "\"", "m", "e", "s", "s",
      "a", "g", "e", "\"", ",", "\"", "b", "o", "t", "_", "i", "d", "\"", ":", "\"",
      "\"", ",", "\"", "t", "e", "x", "t", "\"", ":", "\"", "l", "u", "n", "c", "h",
      " ", "a", "t", " ", "n", "o", "o", "n", "?", "\"", "}", "}">>
\* an event that is no message: {"type":"event_callback","event":{"type":"reaction_added"}}
BodyReaction ==
    <<"{", "\"", "t", "y", "p", "e", "\"", ":", "\"", "e", "v", "e", "n", "t", "_",
      "c", "a", "l", "l", "b", "a", "c", "k", "\"", ",", "\"", "e", "v", "e", "n", "t",
      "\"", ":", "{", "\"", "t", "y", "p", "e", "\"", ":", "\"", "r", "e", "a", "c",
      "t", "i", "o", "n", "_", "a", "d", "d", "e", "d", "\"", "}", "}">>
\* an event_callback with no event: {"type":"event_callback"}
BodyNoEvent ==
    <<"{", "\"", "t", "y", "p", "e", "\"", ":", "\"", "e", "v", "e", "n", "t", "_",
      "c", "a", "l", "l", "b", "a", "c", "k", "\"", "}">>
\* an event_callback whose event is null: {"type":"event_callback","event":null}
BodyEventNull ==
    <<"{", "\"", "t", "y", "p", "e", "\"", ":", "\"", "e", "v", "e", "n", "t", "_",
      "c", "a", "l", "l", "b", "a", "c", "k", "\"", ",", "\"", "e", "v", "e", "n", "t",
      "\"", ":", "n", "u", "l", "l", "}">>
\* another type: {"type":"app_rate_limited"}
BodyOtherType ==
    <<"{", "\"", "t", "y", "p", "e", "\"", ":", "\"", "a", "p", "p", "_", "r", "a",
      "t", "e", "_", "l", "i", "m", "i", "t", "e", "d", "\"", "}">>
\* no JSON: not json
BodyNotJson ==
    <<"n", "o", "t", " ", "j", "s", "o", "n">>
\* JSON, but no object: [1]
BodyNotObject ==
    <<"[", "1", "]">>
\* bytes that are not UTF-8: {"type":"\xff"}
BodyInvalidUtf8 ==
    <<"{", "\"", "t", "y", "p", "e", "\"", ":", "\"", "\\xff", "\"", "}">>
\* a message event with no text: {"type":"event_callback","event":{"type":"message"}}
BodyNoText ==
    <<"{", "\"", "t", "y", "p", "e", "\"", ":", "\"", "e", "v", "e", "n", "t", "_",
      "c", "a", "l", "l", "b", "a", "c", "k", "\"", ",", "\"", "e", "v", "e", "n", "t",
      "\"", ":", "{", "\"", "t", "y", "p", "e", "\"", ":", "\"", "m", "e", "s", "s",
      "a", "g", "e", "\"", "}", "}">>
\* a message event whose text is null: {"type": "event_callback", "event": {"type": "message", "text": null}}
BodyTextNull ==
    <<"{", "\"", "t", "y", "p", "e", "\"", ":", " ", "\"", "e", "v", "e", "n", "t",
      "_", "c", "a", "l", "l", "b", "a", "c", "k", "\"", ",", " ", "\"", "e", "v", "e",
      "n", "t", "\"", ":", " ", "{", "\"", "t", "y", "p", "e", "\"", ":", " ", "\"",
      "m", "e", "s", "s", "a", "g", "e", "\"", ",", " ", "\"", "t", "e", "x", "t",
      "\"", ":", " ", "n", "u", "l", "l", "}", "}">>
\* a message event: every field present: {"type":"event_callback","event":{"type":"message","text":"New charter request\\nCharter Id: 1234\\nName: Jane Doe\\nPhone: 555-1234\\nPick up date: 2024-05-01\\nReturn date: 2024-05-09"}}
BodyFull ==
    <<"{", "\"", "t", "y", "p", "e", "\"", ":", "\"", "e", "v", "e", "n", "t", "_",
      "c", "a", "l", "l", "b", "a", "c", "k", "\"", ",", "\"", "e", "v", "e", "n", "t",
      "\"", ":", "{", "\"", "t", "y", "p", "e", "\"", ":", "\"", "m", "e", "s", "s",
      "a", "g", "e", "\"", ",", "\"", "t", "e", "x", "t", "\"", ":", "\"", "N", "e",
      "w", " ", "c", "h", "a", "r", "t", "e", "r", " ", "r", "e", "q", "u", "e", "s",
      "t", "\\", "n", "C", "h", "a", "r", "t", "e", "r", " ", "I", "d", ":", " ", "1",
      "2", "3", "4", "\\", "n", "N", "a", "m", "e", ":", " ", "J", "a", "n", "e", " ",
      "D", "o", "e", "\\", "n", "P", "h", "o", "n", "e", ":", " ", "5", "5", "5", "-",
      "1", "2", "3", "4", "\\", "n", "P", "i", "c", "k", " ", "u", "p", " ", "d", "a",
      "t", "e", ":", " ", "2", "0", "2", "4", "-", "0", "5", "-", "0", "1", "\\", "n",
      "R", "e", "t", "u", "r", "n", " ", "d", "a", "t", "e", ":", " ", "2", "0", "2",
      "4", "-", "0", "5", "-", "0", "9", "\"", "}", "}">>
\* a message event: no Return date label: {"type":"event_callback","event":{"type":"message","text":"Charter Request\\nCharter Id: 1234\\nName: Jane Doe\\nPhone: 555-1234\\nPick up date: 2024-05-01"}}
BodyNoReturn ==
    <<"{", "\"", "t", "y", "p", "e", "\"", ":", "\"", "e", "v", "e", "n", "t", "_",
      "c", "a", "l", "l", "b", "a", "c", "k", "\"", ",", "\"", "e", "v", "e", "n", "t",
      "\"", ":", "{", "\"", "t", "y", "p", "e", "\"", ":", "\"", "m", "e", "s", "s",
      "a", "g", "e", "\"", ",", "\"", "t", "e", "x", "t", "\"", ":", "\"", "C", "h",
      "a", "r", "t", "e", "r", " ", "R", "e", "q", "u", "e", "s", "t", "\\", "n", "C",
      "h", "a", "r", "t", "e", "r", " ", "I", "d", ":", " ", "1", "2", "3", "4", "\\",
      "n", "N", "a", "m", "e", ":", " ", "J", "a", "n", "e", " ", "D", "o", "e", "\\",
      "n", "P", "h", "o", "n", "e", ":", " ", "5", "5", "5", "-", "1", "2", "3", "4",
      "\\", "n", "P", "i", "c", "k", " ", "u", "p", " ", "d", "a", "t", "e", ":", " ",
      "2", "0", "2", "4", "-", "0", "5", "-", "0", "1", "\"", "}", "}">>
\* a message event: no "charter request": {"type":"event_callback","event":{"type":"message","text":"lunch at noon?"}}
BodyChat ==
    <<"{", "\"", "t", "y", "p", "e", "\"", ":", "\"", "e", "v", "e", "n", "t", "_",
      "c", "a", "l", "l", "b", "a", "c", "k", "\"", ",", "\"", "e", "v", "e", "n", "t",
      "\"", ":", "{", "\"", "t", "y", "p", "e", "\"", ":", "\"", "m", "e", "s", "s",
      "a", "g", "e", "\"", ",", "\"", "t", "e", "x", "t", "\"", ":", "\"", "l", "u",
      "n", "c", "h", " ", "a", "t", " ", "n", "o", "o", "n", "?", "\"", "}", "}">>
\* a message event: every required field, but no "charter request": {"type":"event_callback","event":{"type":"message","text":"Charter Id: 1234\\nName: Jane Doe\\nPhone: 555-1234\\nPick up date: 2024-05-01"}}
BodyNoPrefix ==
    <<"{", "\"", "t", "y", "p", "e", "\"", ":", "\"", "e", "v", "e", "n", "t", "_",
      "c", "a", "l", "l", "b", "a", "c", "k", "\"", ",", "\"", "e", "v", "e", "n", "t",
      "\"", ":", "{", "\"", "t", "y", "p", "e", "\"", ":", "\"", "m", "e", "s", "s",
      "a", "g", "e", "\"", ",", "\"", "t", "e", "x", "t", "\"", ":", "\"", "C", "h",
      "a", "r", "t", "e", "r", " ", "I", "d", ":", " ", "1", "2", "3", "4", "\\", "n",
      "N", "a", "m", "e", ":", " ", "J", "a", "n", "e", " ", "D", "o", "e", "\\", "n",
      "P", "h", "o", "n", "e", ":", " ", "5", "5", "5", "-", "1", "2", "3", "4", "\\",
      "n", "P", "i", "c", "k", " ", "u", "p", " ", "d", "a", "t", "e", ":", " ", "2",
      "0", "2", "4", "-", "0", "5", "-", "0", "1", "\"", "}", "}">>
\* a message event: no Charter Id label: {"type":"event_callback","event":{"type":"message","text":"charter request\\nName: Jane Doe\\nPhone: 555-1234\\nPick up date: 2024-05-01"}}
BodyNoCharterId ==
    <<"{", "\"", "t", "y", "p", "e", "\"", ":", "\"", "e", "v", "e", "n", "t", "_",
      "c", "a", "l", "l", "b", "a", "c", "k", "\"", ",", "\"", "e", "v", "e", "n", "t",
      "\"", ":", "{", "\"", "t", "y", "p", "e", "\"", ":", "\"", "m", "e", "s", "s",
      "a", "g", "e", "\"", ",", "\"", "t", "e", "x", "t", "\"", ":", "\"", "c", "h",
      "a", "r", "t", "e", "r", " ", "r", "e", "q", "u", "e", "s", "t", "\\", "n", "N",
      "a", "m", "e", ":", " ", "J", "a", "n", "e", " ", "D", "o", "e", "\\", "n", "P",
      "h", "o", "n", "e", ":", " ", "5", "5", "5", "-", "1", "2", "3", "4", "\\", "n",
      "P", "i", "c", "k", " ", "u", "p", " ", "d", "a", "t", "e", ":", " ", "2", "0",
      "2", "4", "-", "0", "5", "-", "0", "1", "\"", "}", "}">>
\* a message event: no Name label: {"type":"event_callback","event":{"type":"message","text":"charter request\\nCharter Id: 1234\\nPhone: 555-1234\\nPick up date: 2024-05-01"}}
BodyNoName ==
    <<"{", "\"", "t", "y", "p", "e", "\"", ":", "\"", "e", "v", "e", "n", "t", "_",
      "c", "a", "l", "l", "b", "a", "c", "k", "\"", ",", "\"", "e", "v", "e", "n", "t",
      "\"", ":", "{", "\"", "t", "y", "p", "e", "\"", ":", "\"", "m", "e", "s", "s",
      "a", "g", "e", "\"", ",", "\"", "t", "e", "x", "t", "\"", ":", "\"", "c", "h",
      "a", "r", "t", "e", "r", " ", "r", "e", "q", "u", "e", "s", "t", "\\", "n", "C",
      "h", "a", "r", "t", "e", "r", " ", "I", "d", ":", " ", "1", "2", "3", "4", "\\",
      "n", "P", "h", "o", "n", "e", ":", " ", "5", "5", "5", "-", "1", "2", "3", "4",
      "\\", "n", "P", "i", "c", "k", " ", "u", "p", " ", "d", "a", "t", "e", ":", " ",
      "2", "0", "2", "4", "-", "0", "5", "-", "0", "1", "\"", "}", "}">>
\* a message event: no Phone label: {"type":"event_callback","event":{"type":"message","text":"charter request\\nCharter Id: 1234\\nName: Jane Doe\\nPick up date: 2024-05-01\\nReturn date: 2024-05-09"}}
BodyNoPhone ==
    <<"{", "\"", "t", "y", "p", "e", "\"", ":", "\"", "e", "v", "e", "n", "t", "_",
      "c", "a", "l", "l", "b", "a", "c", "k", "\"", ",", "\"", "e", "v", "e", "n", "t",
      "\"", ":", "{", "\"", "t", "y", "p", "e", "\"", ":", "\"", "m", "e", "s", "s",
      "a", "g", "e", "\"", ",", "\"", "t", "e", "x", "t", "\"", ":", "\"", "c", "h",
      "a", "r", "t", "e", "r", " ", "r", "e", "q", "u", "e", "s", "t", "\\", "n", "C",
      "h", "a", "r", "t", "e", "r", " ", "I", "d", ":", " ", "1", "2", "3", "4", "\\",
      "n", "N", "a", "m", "e", ":", " ", "J", "a", "n", "e", " ", "D", "o", "e", "\\",
      "n", "P", "i", "c", "k", " ", "u", "p", " ", "d", "a", "t", "e", ":", " ", "2",
      "0", "2", "4", "-", "0", "5", "-", "0", "1", "\\", "n", "R", "e", "t", "u", "r",
      "n", " ", "d", "a", "t", "e", ":", " ", "2", "0", "2", "4", "-", "0", "5", "-",
      "0", "9", "\"", "}", "}">>
\* a message event: no Pick up date label: {"type":"event_callback","event":{"type":"message","text":"charter request\\nCharter Id: 1234\\nName: Jane Doe\\nPhone: 555-1234\\nReturn date: 2024-05-09"}}
BodyNoPickUp ==
    <<"{", "\"", "t", "y", "p", "e", "\"", ":", "\"", "e", "v", "e", "n", "t", "_",
      "c", "a", "l", "l", "b", "a", "c", "k", "\"", ",", "\"", "e", "v", "e", "n", "t",
      "\"", ":", "{", "\"", "t", "y", "p", "e", "\"", ":", "\"", "m", "e", "s", "s",
      "a", "g", "e", "\"", ",", "\"", "t", "e", "x", "t", "\"", ":", "\"", "c", "h",
      "a", "r", "t", "e", "r", " ", "r", "e", "q", "u", "e", "s", "t", "\\", "n", "C",
      "h", "a", "r", "t", "e", "r", " ", "I", "d", ":", " ", "1", "2", "3", "4", "\\",
      "n", "N", "a", "m", "e", ":", " ", "J", "a", "n", "e", " ", "D", "o", "e", "\\",
      "n", "P", "h", "o", "n", "e", ":", " ", "5", "5", "5", "-", "1", "2", "3", "4",
      "\\", "n", "R", "e", "t", "u", "r", "n", " ", "d", "a", "t", "e", ":", " ", "2",
      "0", "2", "4", "-", "0", "5", "-", "0", "9", "\"", "}", "}">>
\* a message event: the name wrapped in a mailto link, labels in emphasis markers: {"type":"event_callback","event":{"type":"message","text":"charter request\\n*Charter Id*: 77\\n*Name*: <mailto:a@b.com|John Smith>\\n*Phone*: +1 (555) 12\\n*Pick up date*: 2024-05-01"}}
BodyMailto ==
    <<"{", "\"", "t", "y", "p", "e", "\"", ":", "\"", "e", "v", "e", "n", "t", "_",
      "c", "a", "l", "l", "b", "a", "c", "k", "\"", ",", "\"", "e", "v", "e", "n", "t",
      "\"", ":", "{", "\"", "t", "y", "p", "e", "\"", ":", "\"", "m", "e", "s", "s",
      "a", "g", "e", "\"", ",", "\"", "t", "e", "x", "t", "\"", ":", "\"", "c", "h",
      "a", "r", "t", "e", "r", " ", "r", "e", "q", "u", "e", "s", "t", "\\", "n", "*",
      "C", "h", "a", "r", "t", "e", "r", " ", "I", "d", "*", ":", " ", "7", "7", "\\",
      "n", "*", "N", "a", "m", "e", "*", ":", " ", "<", "m", "a", "i", "l", "t", "o",
      ":", "a", "@", "b", ".", "c", "o", "m", "|", "J", "o", "h", "n", " ", "S", "m",
      "i", "t", "h", ">", "\\", "n", "*", "P", "h", "o", "n", "e", "*", ":", " ", "+",
      "1", " ", "(", "5", "5", "5", ")", " ", "1", "2", "\\", "n", "*", "P", "i", "c",
      "k", " ", "u", "p", " ", "d", "a", "t", "e", "*", ":", " ", "2", "0", "2", "4",
      "-", "0", "5", "-", "0", "1", "\"", "}", "}">>
\* a message event: the name wrapped in a link that is not a mailto link: {"type":"event_callback","event":{"type":"message","text":"charter request\\nCharter Id: 77\\nName: <http://x.io|John Smith>\\nPhone: 555\\nPick up date: 2024-05-01"}}
BodyHttpLink ==
    <<"{", "\"", "t", "y", "p", "e", "\"", ":", "\"", "e", "v", "e", "n", "t", "_",
      "c", "a", "l", "l", "b", "a", "c", "k", "\"", ",", "\"", "e", "v", "e", "n", "t",
      "\"", ":", "{", "\"", "t", "y", "p", "e", "\"", ":", "\"", "m", "e", "s", "s",
      "a", "g", "e", "\"", ",", "\"", "t", "e", "x", "t", "\"", ":", "\"", "c", "h",
      "a", "r", "t", "e", "r", " ", "r", "e", "q", "u", "e", "s", "t", "\\", "n", "C",
      "h", "a", "r", "t", "e", "r", " ", "I", "d", ":", " ", "7", "7", "\\", "n", "N",
      "a", "m", "e", ":", " ", "<", "h", "t", "t", "p", ":", "/", "/", "x", ".", "i",
      "o", "|", "J", "o", "h", "n", " ", "S", "m", "i", "t", "h", ">", "\\", "n", "P",
      "h", "o", "n", "e", ":", " ", "5", "5", "5", "\\", "n", "P", "i", "c", "k", " ",
      "u", "p", " ", "d", "a", "t", "e", ":", " ", "2", "0", "2", "4", "-", "0", "5",
      "-", "0", "1", "\"", "}", "}">>
\* a message event: a name of one word: {"type":"event_callback","event":{"type":"message","text":"charter request\\nCharter Id: 5\\nName: Cher\\nPhone: 555\\nPick up date: 2024-05-01"}}
BodyOneName ==
    <<"{", "\"", "t", "y", "p", "e", "\"", ":", "\"", "e", "v", "e", "n", "t", "_",
      "c", "a", "l", "l", "b", "a", "c", "k", "\"", ",", "\"", "e", "v", "e", "n", "t",
      "\"", ":", "{", "\"", "t", "y", "p", "e", "\"", ":", "\"", "m", "e", "s", "s",
      "a", "g", "e", "\"", ",", "\"", "t", "e", "x", "t", "\"", ":", "\"", "c", "h",
      "a", "r", "t", "e", "r", " ", "r", "e", "q", "u", "e", "s", "t", "\\", "n", "C",
      "h", "a", "r", "t", "e", "r", " ", "I", "d", ":", " ", "5", "\\", "n", "N", "a",
      "m", "e", ":", " ", "C", "h", "e", "r", "\\", "n", "P", "h", "o", "n", "e", ":",
      " ", "5", "5", "5", "\\", "n", "P", "i", "c", "k", " ", "u", "p", " ", "d", "a",
      "t", "e", ":", " ", "2", "0", "2", "4", "-", "0", "5", "-", "0", "1", "\"", "}",
      "}">>
\* a message event: a mailto link whose display text is blank: {"type":"event_callback","event":{"type":"message","text":"charter request\\nCharter Id: 5\\nName: <mailto:a@b.com| >\\nPhone: 555\\nPick up date: 2024-05-01"}}
BodyBlankLink ==
    <<"{", "\"", "t", "y", "p", "e", "\"", ":", "\"", "e", "v", "e", "n", "t", "_",
      "c", "a", "l", "l", "b", "a", "c", "k", "\"", ",", "\"", "e", "v", "e", "n", "t",
      "\"", ":", "{", "\"", "t", "y", "p", "e", "\"", ":", "\"", "m", "e", "s", "s",
      "a", "g", "e", "\"", ",", "\"", "t", "e", "x", "t", "\"", ":", "\"", "c", "h",
      "a", "r", "t", "e", "r", " ", "r", "e", "q", "u", "e", "s", "t", "\\", "n", "C",
      "h", "a", "r", "t", "e", "r", " ", "I", "d", ":", " ", "5", "\\", "n", "N", "a",
      "m", "e", ":", " ", "<", "m", "a", "i", "l", "t", "o", ":", "a", "@", "b", ".",
      "c", "o", "m", "|", " ", ">", "\\", "n", "P", "h", "o", "n", "e", ":", " ", "5",
      "5", "5", "\\", "n", "P", "i", "c", "k", " ", "u", "p", " ", "d", "a", "t", "e",
      ":", " ", "2", "0", "2", "4", "-", "0", "5", "-", "0", "1", "\"", "}", "}">>
\* a message event: a Phone label followed by no digit before the next field: {"type":"event_callback","event":{"type":"message","text":"charter request\\nCharter Id: 5\\nName: Jane Doe\\nPhone: none\\nPick up date: 2024-05-01"}}
BodyPhoneWords ==
    <<"{", "\"", "t", "y", "p", "e", "\"", ":", "\"", "e", "v", "e", "n", "t", "_",
      "c", "a", "l", "l", "b", "a", "c", "k", "\"", ",", "\"", "e", "v", "e", "n", "t",
      "\"", ":", "{", "\"", "t", "y", "p", "e", "\"", ":", "\"", "m", "e", "s", "s",
      "a", "g", "e", "\"", ",", "\"", "t", "e", "x", "t", "\"", ":", "\"", "c", "h",
      "a", "r", "t", "e", "r", " ", "r", "e", "q", "u", "e", "s", "t", "\\", "n", "C",
      "h", "a", "r", "t", "e", "r", " ", "I", "d", ":", " ", "5", "\\", "n", "N", "a",
      "m", "e", ":", " ", "J", "a", "n", "e", " ", "D", "o", "e", "\\", "n", "P", "h",
      "o", "n", "e", ":", " ", "n", "o", "n", "e", "\\", "n", "P", "i", "c", "k", " ",
      "u", "p", " ", "d", "a", "t", "e", ":", " ", "2", "0", "2", "4", "-", "0", "5",
      "-", "0", "1", "\"", "}", "}">>
\* a message event: the empty text: {"type":"event_callback","event":{"type":"message","text":""}}
BodyEmpty ==
    <<"{", "\"", "t", "y", "p", "e", "\"", ":", "\"", "e", "v", "e", "n", "t", "_",
      "c", "a", "l", "l", "b", "a", "c", "k", "\"", ",", "\"", "e", "v", "e", "n", "t",
      "\"", ":", "{", "\"", "t", "y", "p", "e", "\"", ":", "\"", "m", "e", "s", "s",
      "a", "g", "e", "\"", ",", "\"", "t", "e", "x", "t", "\"", ":", "\"", "\"", "}",
      "}">>

\* The request bodies of the model.
Bodies ==
    {BodyUrlVerification, BodyUrlVerificationNoChallenge, BodyBotMessage,
     BodyEmptyBotId, BodyReaction, BodyNoEvent, BodyEventNull, BodyOtherType,
     BodyNotJson, BodyNotObject, BodyInvalidUtf8, BodyNoText, BodyTextNull,
     BodyFull, BodyNoReturn, BodyChat, BodyNoPrefix, BodyNoCharterId, BodyNoName,
     BodyNoPhone, BodyNoPickUp, BodyMailto, BodyHttpLink, BodyOneName,
     BodyBlankLink, BodyPhoneWords, BodyEmpty}

\* ------------------------------------------------------------ slack_events
Chars_type == <<"t", "y", "p", "e">>
Chars_event == <<"e", "v", "e", "n", "t">>
Chars_text == <<"t", "e", "x", "t">>
Chars_bot_id == <<"b", "o", "t", "_", "i", "d">>
Chars_challenge == <<"c", "h", "a", "l", "l", "e", "n", "g", "e">>
Chars_url_verification ==
    <<"u", "r", "l", "_", "v", "e", "r", "i", "f", "i", "c", "a", "t", "i", "o", "n">>
Chars_event_callback ==
    <<"e", "v", "e", "n", "t", "_", "c", "a", "l", "l", "b", "a", "c", "k">>
Chars_message == <<"m", "e", "s", "s", "a", "g", "e">>
Chars_InvalidRequest ==
    <<"I", "n", "v", "a", "l", "i", "d", " ", "r", "e", "q", "u", "e", "s", "t">>
Chars_NotFound == <<"N", "o", "t", " ", "F", "o", "u", "n", "d">>
Chars_Alive ==
    <<"B", "o", "t", " ", "i", "s", " ", "a", "l", "i", "v", "e", " ", "a", "n", "d",
      " ", "l", "i", "s", "t", "e", "n", "i", "n", "g", " ", "f", "o", "r", " ", "P",
      "O", "S", "T", " ", "r", "e", "q", "u", "e", "s", "t", "s", " ", "f", "r", "o",
      "m", " ", "S", "l", "a", "c", "k", ".">>

\* What the view function comes to: the response (status, body and
\* Content-Type), whether line 199 has started a thread and with which
\* argument, and what verify_slack_request has come to at line 187 ("none"
\* when it is not called).
Response(status, body, ctype) ==
    [status |-> status, body |-> body, ctype |-> ctype, thread |-> FALSE, arg |-> None,
     verified |-> "none"]

\* An exception that leaves the view function: Flask answers 500.
InternalServerError == Response(500, <<>>, "text/html")

\* make_response(value, 200, {"Content-Type": "text/plain"}) of line 193: a
\* str is the body; None, a number or a bool is a TypeError; a dict or a list
\* is serialised by Flask (the body is not modelled further).
ChallengeResponse(value) ==
    CASE value.t = "str" -> Response(200, value.s, "text/plain")
      [] value.t \in {"dict", "list"} -> Response(200, <<"<json>">>, "text/plain")
      [] OTHER -> InternalServerError

\* The condition of line 197 without its bot_id test.
IsHumanMessageNoBotTest(event) ==
    EqStr(Get(event, Chars_type, JNone), Chars_message)

\* Line 197: event.get("type") == "message" and not event.get("bot_id").
IsHumanMessage(event) ==
    /\ EqStr(Get(event, Chars_type, JNone), Chars_message)
    /\ ~Truthy(Get(event, Chars_bot_id, JNone))

\* The argument line 198 gives the thread: event.get("text", ""), a str or
\* (None here) a value of another type.
ThreadArg(event) ==
    LET v == Get(event, Chars_text, JStr(<<>>))
    IN IF v.t = "str" THEN Str(v.s) ELSE None

\* Lines 195-201 on the event of an event_callback: event.get raises
\* AttributeError when the event is no dict.
RouteEvent(event) ==
    IF event.t # "dict" THEN InternalServerError
    ELSE IF IsHumanMessage(event)
         THEN [Response(200, <<>>, "text/html") EXCEPT
                 !.thread = TRUE, !.arg = ThreadArg(event)]
    ELSE Response(200, <<>>, "text/html")

\* Lines 192-201 on the decoded body: body.get raises AttributeError when
\* the body is no dict.
RouteBody(body) ==
    IF body.t # "dict" THEN InternalServerError
    ELSE IF EqStr(Get(body, Chars_type, JNone), Chars_url_verification)
         THEN ChallengeResponse(Get(body, Chars_challenge, JNone))
    ELSE IF EqStr(Get(body, Chars_type, JNone), Chars_event_callback)
         THEN RouteEvent(Get(body, Chars_event, JDict(<<>>)))
    ELSE Response(200, <<>>, "text/html")

\* Line 191 and what follows it, given the result of json.loads.
RouteLoaded(loaded) == IF ~loaded.ok THEN InternalServerError ELSE RouteBody(loaded.v)

\* Lines 191-201, on the decoded and verified request body: the response,
\* and whether a thread is started (with its argument) before it.
Route(request_body) == RouteLoaded(JsonLoads(request_body))

\* request.get_data().decode('utf-8') of line 185 fails on a body that is
\* not UTF-8.
Decodable(raw) == \A i \in 1..Len(raw) : raw[i] # InvalidUtf8Byte

\* Decodable and Route on the bodies of the model, computed once.
BodyTable ==
    {[body |-> b, decodable |-> Decodable(b), loaded |-> JsonLoads(b), route |-> Route(b)] :
        b \in Bodies \cup {<<>>}}
OfBody(raw) == CHOOSE e \in BodyTable : e.body = raw

\* Lines 187-201 with the "False" of line 187 let through to the routing.
VerifiedAlways(verified, routed) ==
    IF verified = "TypeError" THEN [InternalServerError EXCEPT !.verified = verified]
    ELSE [routed EXCEPT !.verified = verified]

\* Line 187 and what follows it: the 403 of line 189, or the routing.
Verified(verified, routed) ==
    IF verified = "TypeError" THEN [InternalServerError EXCEPT !.verified = verified]
    ELSE IF verified = "False"
         THEN [Response(403, Chars_InvalidRequest, "text/html") EXCEPT !.verified = verified]
    ELSE [routed EXCEPT !.verified = verified]

\* Lines 182-201 for a POST, given what is known of its body, with the clock
\* at tick t.
PostOf(known, timestamp, signature, secret, t) ==
    IF ~known.decodable THEN InternalServerError
    ELSE Verified(VerifySlackRequest(known.body, timestamp, signature, secret, t),
                  known.route)
Post(raw, timestamp, signature, secret, t) ==
    PostOf(OfBody(raw), timestamp, signature, secret, t)

\* slack_events for a request of the given method (lines 176-203).  Flask's
\* routing lets GET, POST and, with GET, HEAD reach the view.
SlackEvents(method, raw, timestamp, signature, secret, t) ==
    IF method = "GET" THEN Response(200, Chars_Alive, "text/html")
    ELSE IF method = "POST" THEN Post(raw, timestamp, signature, secret, t)
    ELSE Response(404, Chars_NotFound, "text/html")


\* ------------------------------------------------------------------ inputs
\* The value of SLACK_SIGNING_SECRET, and a key that is not the secret.
SigningSecret == <<"s", "3", "c", "r", "3", "t">>
OtherSecret == <<"g", "u", "e", "s", "s">>

StartTick == StartSecond * TicksPerSecond
TimestampNow == NatToStr(StartSecond)

Delivery(method, body, timestamp, signature) ==
    [method |-> method, body |-> body, timestamp |-> timestamp, signature |-> signature]

\* A POST as the platform sends it: stamped with the current second and
\* signed with the secret.
Signed(body) ==
    Delivery("POST", body, Str(TimestampNow),
             Str(MySignature(SigningSecret, TimestampNow, body)))
\* A POST signed with another key.
Forged(body) ==
    Delivery("POST", body, Str(TimestampNow),
             Str(MySignature(OtherSecret, TimestampNow, body)))
\* A POST with no signature header.
Unsigned(body) == Delivery("POST", body, Str(TimestampNow), None)
\* A correctly signed POST replayed after the window has passed.
Replayed(body) ==
    LET old == NatToStr(StartSecond - ReplayWindow - 1)
    IN Delivery("POST", body, Str(old), Str(MySignature(SigningSecret, old, body)))
\* A POST whose signature header holds a character that is not ASCII.
Garbled(body) == Delivery("POST", body, Str(TimestampNow), Str(<<"v", "0", "=", "\\xe1">>))

\* Bodies that start no thread when verified.
QuietBodies ==
    {BodyUrlVerification, BodyUrlVerificationNoChallenge, BodyBotMessage, BodyReaction,
     BodyNoEvent, BodyEventNull, BodyOtherType, BodyNotJson, BodyNotObject,
     BodyInvalidUtf8}
\* Bodies that start a thread when verified.
MessageBodies == {BodyFull, BodyChat, BodyNoPhone, BodyTextNull, BodyEmptyBotId}

Deliveries ==
    {Signed(b) : b \in QuietBodies \cup MessageBodies}
    \cup {Forged(b) : b \in {BodyUrlVerification, BodyFull, BodyInvalidUtf8}}
    \cup {Unsigned(BodyFull), Replayed(BodyFull), Garbled(BodyUrlVerification)}
    \cup {Delivery("GET", <<>>, None, None), Delivery("HEAD", <<>>, None, None)}

\* ------------------------------------------------------------------- state
VARIABLES
    secret,         \* SLACK_SIGNING_SECRET (line 36): a text or None
    credentials,    \* GOOGLE_CREDENTIALS_JSON: "unset", "malformed" or "valid"
    now,            \* the clock, in ticks
    requests,       \* the requests received, in order of arrival
    threads,        \* the threads started at line 199, in order of start
    sink,           \* the append calls made on the sheet (line 162), in order
    call            \* one call of verify_slack_request: its arguments and result

vars == <<secret, credentials, now, requests, threads, sink, call>>

NoCall ==
    [body |-> <<>>, timestamp |-> None, signature |-> None, secret |-> None,
     t |-> 0, result |-> "none"]

NoResponse == [status |-> 0, body |-> <<>>, ctype |-> ""]

\* The process's configurations: without a signing secret, and with it and
\* each state of the sheet credentials.
Configurations ==
    {[secret |-> None, credentials |-> "valid"],
     [secret |-> Str(<<>>), credentials |-> "valid"],
     [secret |-> Str(SigningSecret), credentials |-> "valid"],
     [secret |-> Str(SigningSecret), credentials |-> "unset"],
     [secret |-> Str(SigningSecret), credentials |-> "malformed"]}

Init ==
    /\ \E c \in Configurations : secret = c.secret /\ credentials = c.credentials
    /\ now = StartTick
    /\ requests = <<>>
    /\ threads = <<>>
    /\ sink = <<>>
    /\ call = NoCall

\* The request d once the view function has come to r: answered, or with
\* its thread (the thread_no-th) started at line 199 and its response still
\* to make.  Of the request are kept its method, its body and what its
\* verification came to.
RequestOf(d, r, thread_no) ==
    [method |-> d.method, body |-> d.body, verified |-> r.verified,
     pc |-> IF r.thread THEN "started" ELSE "done",
     response |-> IF r.thread THEN NoResponse
                  ELSE [status |-> r.status, body |-> r.body, ctype |-> r.ctype],
     thread |-> IF r.thread THEN thread_no ELSE 0]

\* threading.Thread(target=parse_and_append, args=(...,)) of line 198,
\* started at line 199 for the request_no-th request.
ThreadOf(request_no, r) ==
    [request |-> request_no, arg |-> r.arg, pc |-> "start", outcome |-> "running",
     data |-> NoData]

\* The request is handled (lines 176-203) up to its response r or, when line
\* 199 starts a thread, up to the start of the thread.
Handled(d, r) ==
    /\ requests' = Append(requests, RequestOf(d, r, Len(threads) + 1))
    /\ threads' = IF r.thread THEN Append(threads, ThreadOf(Len(requests) + 1, r))
                  ELSE threads

Receive(d) ==
    /\ Len(requests) < MaxRequests
    /\ Handled(d, SlackEvents(d.method, d.body, d.timestamp, d.signature, secret, now))
    /\ UNCHANGED <<secret, credentials, now, sink, call>>

\* Line 201 waiting for the thread it started to end.
MayReturnAfterJoin(i) == threads[requests[i].thread].pc = "done"

\* What line 201 waits for after thread.start(): nothing.
MayReturn(i) == TRUE

\* Line 201 answering 500 when the thread it started has failed.
FinalResponseOfOutcome(i) ==
    [status |-> IF threads[requests[i].thread].outcome
                     \in {"parse_failed", "append_failed", "AttributeError", "IndexError"}
                THEN 500 ELSE 200,
     body |-> <<>>, ctype |-> "text/html"]

\* make_response("", 200) of line 201.
FinalResponse(i) == [status |-> 200, body |-> <<>>, ctype |-> "text/html"]

\* Line 201, after the thread is started.
Respond(i) ==
    /\ requests[i].pc = "started"
    /\ MayReturn(i)
    /\ requests' = [requests EXCEPT ![i].pc = "done", ![i].response = FinalResponse(i)]
    /\ UNCHANGED <<secret, credentials, now, threads, sink, call>>

\* The thread runs parse_and_append up to its end or its call of
\* append_to_sheet (lines 70-133), r being what it comes to.
Parsed(t, r) ==
    threads' = [threads EXCEPT
                  ![t].pc = IF r.outcome = "parsed" THEN "append" ELSE "done",
                  ![t].outcome = IF r.outcome = "parsed" THEN "running" ELSE r.outcome,
                  ![t].data = r.data]

ParseAndAppend(t) ==
    /\ threads[t].pc = "start"
    /\ Parsed(t, ParseAndAppendOf(threads[t].arg, now \div TicksPerSecond))
    /\ UNCHANGED <<secret, credentials, now, requests, sink, call>>

\* The results the sheet's append call can have: it returns, or it raises.
SinkResults == {"ok", "error"}

\* The append calls made by thread t.
AppendsOf(t) == {k \in 1..Len(sink) : sink[k].thread = t}

\* append_to_sheet skipping a record whose charter id is already in a row
\* sent.
AppendToSheetDeduplicated(t) ==
    /\ threads[t].pc = "append"
    /\ \A k \in 1..Len(sink) : sink[k].row[2] # threads[t].data.charter_id
    /\ \E result \in SinkResults :
          /\ threads' = [threads EXCEPT
                           ![t].pc = "done",
                           ![t].outcome = IF result = "ok" THEN "appended"
                                          ELSE "append_failed"]
          /\ sink' = Append(sink, [thread |-> t, row |-> RowValues(threads[t].data),
                                   result |-> result])
    /\ UNCHANGED <<secret, credentials, now, requests, call>>

\* append_to_sheet without the try/except of lines 137 and 170: what is
\* raised leaves the thread.
AppendToSheetUncaught(t) ==
    /\ threads[t].pc = "append"
    /\ IF credentials # "valid"
       THEN /\ threads' = [threads EXCEPT ![t].pc = "done", ![t].outcome = "ValueError"]
            /\ sink' = sink
       ELSE \E result \in SinkResults :
            /\ threads' = [threads EXCEPT
                             ![t].pc = "done",
                             ![t].outcome = IF result = "ok" THEN "appended"
                                            ELSE "HttpError"]
            /\ sink' = Append(sink, [thread |-> t, row |-> RowValues(threads[t].data),
                                     result |-> result])
    /\ UNCHANGED <<secret, credentials, now, requests, call>>

\* append_to_sheet waiting for the threads started before this one.
AppendToSheetInOrder(t) ==
    /\ threads[t].pc = "append"
    /\ \A u \in 1..(t - 1) : threads[u].pc = "done"
    /\ IF credentials # "valid"
       THEN /\ threads' = [threads EXCEPT ![t].pc = "done", ![t].outcome = "append_failed"]
            /\ sink' = sink
       ELSE \E result \in SinkResults :
            /\ threads' = [threads EXCEPT
                             ![t].pc = "done",
                             ![t].outcome = IF result = "ok" THEN "appended"
                                            ELSE "append_failed"]
            /\ sink' = Append(sink, [thread |-> t, row |-> RowValues(threads[t].data),
                                     result |-> result])
    /\ UNCHANGED <<secret, credentials, now, requests, call>>

\* append_to_sheet making its call a second time when the first has raised.
AppendToSheetRetrying(t) ==
    /\ threads[t].pc = "append"
    /\ \E result \in SinkResults :
          /\ threads' = [threads EXCEPT
                           ![t].pc = IF result = "error" /\ AppendsOf(t) = {}
                                     THEN "append" ELSE "done",
                           ![t].outcome = IF result = "ok" THEN "appended"
                                          ELSE IF AppendsOf(t) = {} THEN "running"
                                          ELSE "append_failed"]
          /\ sink' = Append(sink, [thread |-> t, row |-> RowValues(threads[t].data),
                                   result |-> result])
    /\ UNCHANGED <<secret, credentials, now, requests, call>>

\* append_to_sheet (lines 135-171): without usable credentials the exception
\* of lines 143-146 is caught at line 170 before any call is made; else the
\* row is sent and the call returns or raises, which line 170 catches too.
AppendToSheet(t) ==
    /\ threads[t].pc = "append"
    /\ IF credentials # "valid"
       THEN /\ threads' = [threads EXCEPT ![t].pc = "done", ![t].outcome = "append_failed"]
            /\ sink' = sink
       ELSE \E result \in SinkResults :
            /\ threads' = [threads EXCEPT
                             ![t].pc = "done",
                             ![t].outcome = IF result = "ok" THEN "appended"
                                            ELSE "append_failed"]
            /\ sink' = Append(sink, [thread |-> t, row |-> RowValues(threads[t].data),
                                     result |-> result])
    /\ UNCHANGED <<secret, credentials, now, requests, call>>

\* Time passes.
Tick ==
    /\ now < StartTick + MaxTicks
    /\ now' = now + 1
    /\ UNCHANGED <<secret, credentials, requests, threads, sink, call>>

Next ==
    \/ \E d \in Deliveries : Receive(d)
    \/ \E i \in 1..Len(requests) : Respond(i)
    \/ \E t \in 1..Len(threads) : ParseAndAppend(t)
    \/ \E t \in 1..Len(threads) : AppendToSheet(t)
    \/ Tick

Spec == Init /\ [][Next]_vars

\* ------------------------------------- parse_and_append on every message
\* Bodies of message events, one for each text of the model, and those
\* whose text is null or absent.
ParseBodies ==
    {BodyFull, BodyNoReturn, BodyChat, BodyNoPrefix, BodyNoCharterId, BodyNoName,
     BodyNoPhone, BodyNoPickUp, BodyMailto, BodyHttpLink, BodyOneName, BodyBlankLink,
     BodyPhoneWords, BodyEmpty, BodyNoText, BodyTextNull}

\* The view function on the delivery d at the start of a behaviour.
FirstHandled(d) ==
    SlackEvents(d.method, d.body, d.timestamp, d.signature, Str(SigningSecret), StartTick)

\* The state in which line 199 has just started the thread of a first
\* request, a signed message event.
InitParse ==
    /\ secret = Str(SigningSecret)
    /\ credentials \in {"valid", "unset", "malformed"}
    /\ now = StartTick
    /\ \E b \in ParseBodies :
          /\ requests = <<RequestOf(Signed(b), FirstHandled(Signed(b)), 1)>>
          /\ threads = <<ThreadOf(1, FirstHandled(Signed(b)))>>
    /\ sink = <<>>
    /\ call = NoCall

NextParse ==
    \/ \E i \in 1..Len(requests) : Respond(i)
    \/ \E t \in 1..Len(threads) : ParseAndAppend(t)
    \/ \E t \in 1..Len(threads) : AppendToSheet(t)
    \/ Tick

SpecParse == InitParse /\ [][NextParse]_vars

\* The threads are scheduled fairly, and each call of the sheet returns or
\* raises: a thread that can take its next step takes it.
SpecParseFair ==
    /\ InitParse
    /\ [][NextParse]_vars
    /\ WF_vars(\E t \in 1..Len(threads) : ParseAndAppend(t))
    /\ WF_vars(\E t \in 1..Len(threads) : AppendToSheet(t))

\* --------------------------------------- verify_slack_request on its own
VerifyBodies == {BodyUrlVerification, BodyFull}
VerifyKeys == {SigningSecret, OtherSecret, <<>>}

\* Timestamps on both sides of the window's edges, and one that int() reads
\* as the current second though its text differs.
WindowOffsets == {0 - ReplayWindow - 1, 0 - ReplayWindow, 0, ReplayWindow, ReplayWindow + 1}
ValidTimestamps ==
    {NatToStr(StartSecond + o) : o \in WindowOffsets} \cup {<<" ">> \o TimestampNow}
TimestampHeaders ==
    {None, Str(<<>>), Str(<<"a", "b", "c">>)} \cup {Str(ts) : ts \in ValidTimestamps}

\* Signatures: absent, empty, not ASCII, and the digest of each key,
\* timestamp and body.
SignatureHeaders ==
    {None, Str(<<>>), Str(<<"v", "0", "=", "\\xe1">>)}
    \cup {Str(MySignature(k, ts, b)) : k \in VerifyKeys, ts \in ValidTimestamps, b \in VerifyBodies}

InitVerify ==
    /\ secret \in {None, Str(<<>>), Str(SigningSecret)}
    /\ credentials = "valid"
    /\ now = StartTick
    /\ requests = <<>>
    /\ threads = <<>>
    /\ sink = <<>>
    /\ \E b \in VerifyBodies, ts \in TimestampHeaders, sig \in SignatureHeaders :
          call = [NoCall EXCEPT !.body = b, !.timestamp = ts, !.signature = sig]

\* verify_slack_request is called (lines 40-66) with the secret and the
\* clock as they are.
Verify ==
    /\ call.result = "none"
    /\ call' = [call EXCEPT
                  !.secret = secret, !.t = now,
                  !.result = VerifySlackRequest(call.body, call.timestamp, call.signature,
                                                secret, now)]
    /\ UNCHANGED <<secret, credentials, now, requests, threads, sink>>

NextVerify == Verify \/ Tick

SpecVerify == InitVerify /\ [][NextVerify]_vars

\* ------------------------------------------- message events side by side
\* Deliveries of message events: two that pass extraction, one that lacks a
\* required field, one posted by a bot and one that is forged.
MessageDeliveries ==
    {Signed(BodyFull), Signed(BodyNoReturn), Signed(BodyNoPhone), Signed(BodyBotMessage),
     Forged(BodyFull)}

\* The endpoint with its secret set, receiving message events only.
InitMessages ==
    /\ secret = Str(SigningSecret)
    /\ credentials \in {"valid", "unset", "malformed"}
    /\ now = StartTick
    /\ requests = <<>>
    /\ threads = <<>>
    /\ sink = <<>>
    /\ call = NoCall

NextMessages ==
    \/ \E d \in MessageDeliveries : Receive(d)
    \/ \E i \in 1..Len(requests) : Respond(i)
    \/ \E t \in 1..Len(threads) : ParseAndAppend(t)
    \/ \E t \in 1..Len(threads) : AppendToSheet(t)
    \/ Tick

SpecMessages == InitMessages /\ [][NextMessages]_vars

\* ------------------------------------------------------------- properties
\* What the properties say of the i-th request.
Answered(i, status, body) ==
    /\ requests[i].pc = "done"
    /\ requests[i].response.status = status
    /\ requests[i].response.body = body
\* A thread has been started for the i-th request.
HasThread(i) ==
    requests[i].thread # 0 \/ \E t \in 1..Len(threads) : threads[t].request = i
\* An append call has been made for the i-th request.
HasAppend(i) == \E k \in 1..Len(sink) : threads[sink[k].thread].request = i
\* The i-th request is a POST that verify_slack_request has accepted.
VerifiedPost(i) == requests[i].method = "POST" /\ requests[i].verified = "True"
\* The bodies of the model that are JSON objects, and among them those of
\* type url_verification and event_callback.
ObjectBodies ==
    {b \in Bodies : Decodable(b) /\ JsonLoads(b).ok /\ JsonLoads(b).v.t = "dict"}
UrlVerificationBodies ==
    {b \in ObjectBodies :
        EqStr(Get(JsonLoads(b).v, Chars_type, JNone), Chars_url_verification)}
EventCallbackBodies ==
    {b \in ObjectBodies :
        EqStr(Get(JsonLoads(b).v, Chars_type, JNone), Chars_event_callback)}
\* The event of a body (an empty object when it has none), whether it is a
\* message, and whether it carries a bot-origin marker (a bot_id that is
\* not empty).
EventOf(b) == Get(JsonLoads(b).v, Chars_event, JDict(<<>>))
MessageEvent(b) == EqStr(Get(EventOf(b), Chars_type, JNone), Chars_message)
BotMarked(b) == Truthy(Get(EventOf(b), Chars_bot_id, JNone))
\* The event_callback bodies carrying a message event without bot marker.
HumanMessageBodies ==
    {b \in EventCallbackBodies : EventOf(b).t = "dict" /\ MessageEvent(b) /\ ~BotMarked(b)}
\* The bodies the routing has nothing to do for: a message event with a bot
\* marker, an event that is no message, or another type.
IgnorableBodies ==
    {b \in EventCallbackBodies : EventOf(b).t = "dict" /\ (~MessageEvent(b) \/ BotMarked(b))}
    \cup (ObjectBodies \ (EventCallbackBodies \cup UrlVerificationBodies))
\* The challenge of each url_verification body (None when it has none).
Challenges ==
    {[body |-> b, challenge |-> Get(JsonLoads(b).v, Chars_challenge, JNone)] :
        b \in UrlVerificationBodies}
ChallengeOf(b) == (CHOOSE c \in Challenges : c.body = b).challenge

IsUrlVerification(i) == requests[i].body \in UrlVerificationBodies
HumanMessagePost(i) == VerifiedPost(i) /\ requests[i].body \in HumanMessageBodies
Ignorable(i) == VerifiedPost(i) /\ requests[i].body \in IgnorableBodies

\* C1: a POST whose verification returns False is answered 403 "Invalid
\* request", whatever its body, and no thread is started and no append
\* made for it.
C1_FailedVerificationRejected ==
    \A i \in 1..Len(requests) :
        requests[i].method = "POST" /\ requests[i].verified = "False" =>
            /\ Answered(i, 403, Chars_InvalidRequest)
            /\ ~HasThread(i)
            /\ ~HasAppend(i)

\* A message event that would have started a thread has failed its
\* verification and been answered 403.
C1_Witness ==
    \E i \in 1..Len(requests) :
        /\ requests[i].body = BodyFull
        /\ requests[i].verified = "False"
        /\ Answered(i, 403, Chars_InvalidRequest)

\* The call's timestamp is a number within the window of the clock, and
\* the secret is set.
CallInWindow ==
    /\ call.result # "none"
    /\ ~Falsy(call.secret)
    /\ call.timestamp.some
    /\ ParseInt(call.timestamp.s).ok
    /\ Abs(call.t - TicksPerSecond * ParseInt(call.timestamp.s).v)
          <= ReplayWindow * TicksPerSecond
\* The call's signature is the digest of its timestamp and body under the
\* secret.
CallSignedRight ==
    call.signature = Str(MySignature(call.secret.s, call.timestamp.s, call.body))

\* C2: with a timestamp within 300 s of the clock, verify_slack_request
\* returns true when the signature is the HMAC of "v0:"+T+":"+B under the
\* secret, and returns false when the signature is any other value (so when
\* B, T or the signature has been replaced).
C2_SignatureDecides ==
    CallInWindow =>
        /\ CallSignedRight => call.result = "True"
        /\ ~CallSignedRight => call.result = "False"

\* C3: a timestamp more than 300 s from the clock, before or after, makes
\* verify_slack_request return false whatever the signature; a timestamp
\* exactly 300 s away with the right signature is accepted.
C3_ReplayWindow ==
    call.result # "none" /\ call.timestamp.some /\ ParseInt(call.timestamp.s).ok =>
        /\ Abs(call.t - TicksPerSecond * ParseInt(call.timestamp.s).v)
              > ReplayWindow * TicksPerSecond
           => call.result = "False"
        /\ /\ Abs(call.t - TicksPerSecond * ParseInt(call.timestamp.s).v)
                 = ReplayWindow * TicksPerSecond
           /\ ~Falsy(call.secret)
           /\ CallSignedRight
           => call.result = "True"

\* A rightly signed call whose timestamp is one tick more than 300 s old
\* has returned false.
C3_Witness ==
    /\ call.result = "False"
    /\ ~Falsy(call.secret)
    /\ CallSignedRight
    /\ call.timestamp = Str(NatToStr(StartSecond - ReplayWindow))
    /\ call.t = StartTick + 1

\* C4: verify_slack_request returns false whenever the secret, the
\* timestamp or the signature is None or empty.
C4_FailsClosed ==
    /\ call.result # "none"
    /\ \/ ~call.secret.some \/ call.secret.s = <<>>
       \/ ~call.timestamp.some \/ call.timestamp.s = <<>>
       \/ ~call.signature.some \/ call.signature.s = <<>>
    => call.result = "False"

\* With no secret set, a call with a current timestamp and the digest under
\* the empty key has returned false.
C4_Witness ==
    /\ call.result = "False"
    /\ ~call.secret.some
    /\ call.timestamp = Str(TimestampNow)
    /\ call.signature = Str(MySignature(<<>>, TimestampNow, call.body))

\* C5: a verified POST of type url_verification is answered 200,
\* text/plain, with the challenge of its body, and starts no thread.
C5_ChallengeEchoed ==
    \A i \in 1..Len(requests) :
        VerifiedPost(i) /\ IsUrlVerification(i) =>
            /\ Answered(i, 200, ChallengeOf(requests[i].body).s)
            /\ requests[i].response.ctype = "text/plain"
            /\ ~HasThread(i)

\* C6: a verified event_callback carrying a message without bot marker has
\* its thread started, its response is enabled from then on whatever the
\* thread does, and the response is 200 with an empty body.
C6_ResponseNotBlocked ==
    \A i \in 1..Len(requests) :
        HumanMessagePost(i) =>
            /\ requests[i].thread \in 1..Len(threads)
            /\ threads[requests[i].thread].request = i
            /\ requests[i].pc = "started" => ENABLED Respond(i)
            /\ requests[i].pc = "done" => Answered(i, 200, <<>>)

\* A response has been sent while the thread has not begun.
C6_Witness ==
    \E i \in 1..Len(requests) :
        /\ HumanMessagePost(i)
        /\ Answered(i, 200, <<>>)
        /\ threads[requests[i].thread].pc = "start"

\* C7: a thread is started only for a verified event_callback whose event
\* is a message without bot marker; a verified POST with a marked message,
\* another event or another type is answered 200 with an empty body and has
\* no thread and no append.
C7_OnlyHumanMessagesProcessed ==
    \A i \in 1..Len(requests) :
        /\ HasThread(i) => HumanMessagePost(i)
        /\ Ignorable(i) => Answered(i, 200, <<>>) /\ ~HasThread(i) /\ ~HasAppend(i)

\* A verified message with a bot marker has been answered, with no thread.
C7_Witness ==
    \E i \in 1..Len(requests) :
        /\ requests[i].body = BodyBotMessage
        /\ Ignorable(i)
        /\ Answered(i, 200, <<>>)
        /\ ~HasThread(i)

\* C8: every POST is answered 403 or 200.
C8_Only403Or200 ==
    \A i \in 1..Len(requests) :
        requests[i].method = "POST" /\ requests[i].pc = "done" =>
            requests[i].response.status \in {403, 200}

\* C9: the responses to requests that started a thread are the same, 200
\* with an empty body, whatever their threads have come to.
C9_ResponseIndependentOfBackground ==
    \A i, j \in 1..Len(requests) :
        /\ HasThread(i) /\ requests[i].pc = "done"
        /\ HasThread(j) /\ requests[j].pc = "done"
        => /\ requests[i].response.status = requests[j].response.status
           /\ requests[i].response.body = requests[j].response.body
           /\ requests[i].response.status = 200
           /\ requests[i].response.body = <<>>

\* Two requests with the same body, answered after their threads ended
\* differently.
C9_Witness ==
    \E i, j \in 1..Len(requests) :
        /\ requests[i].body = requests[j].body
        /\ HasThread(i) /\ requests[i].pc = "done"
        /\ HasThread(j) /\ requests[j].pc = "done"
        /\ threads[requests[i].thread].outcome = "appended"
        /\ threads[requests[j].thread].outcome = "append_failed"
        /\ requests[i].response = requests[j].response

\* The texts of the model in which the pattern of a required field does not
\* match.
TextsMissingRequired ==
    {text \in Texts :
        \E p \in {CharterIdPattern, NamePattern, PhonePattern, PickUpDatePattern} :
            ~Search(p, text).ok}

\* C10: a thread whose text lacks a required field never calls
\* append_to_sheet and ends without exception: ignored or parse_failed.
C10_MissingRequiredFieldDiscards ==
    \A t \in 1..Len(threads) :
        threads[t].arg.some /\ threads[t].arg.s \in TextsMissingRequired =>
            /\ threads[t].pc # "append"
            /\ threads[t].outcome \in {"running", "ignored", "parse_failed"}
            /\ threads[t].pc = "done" => threads[t].outcome \in {"ignored", "parse_failed"}
            /\ \A k \in 1..Len(sink) : sink[k].thread # t

\* The thread of a text with every field but the phone has ended in
\* parse_failed, with nothing appended.
C10_Witness ==
    \E t \in 1..Len(threads) :
        /\ threads[t].arg = Str(TextNoPhone)
        /\ threads[t].pc = "done"
        /\ threads[t].outcome = "parse_failed"
        /\ sink = <<>>

\* The texts of the model that hold "charter request" and in which the four
\* required patterns match and the Return date pattern does not.
TextsWithoutReturnDate ==
    {text \in Texts \ TextsMissingRequired :
        /\ Contains(Lower(text), CharterRequest)
        /\ ~Search(ReturnDatePattern, text).ok}

\* C11: a thread whose text has the four required fields and no return
\* date hands one record to append_to_sheet, with an empty return_date, and
\* the row sent has an empty last column; the thread does not end without
\* having called append_to_sheet.
C11_MissingReturnDateKept ==
    \A t \in 1..Len(threads) :
        threads[t].arg.some /\ threads[t].arg.s \in TextsWithoutReturnDate =>
            /\ threads[t].pc = "done" => threads[t].outcome \in {"appended", "append_failed"}
            /\ threads[t].pc # "start" => threads[t].data.return_date = <<>>
            /\ \A k \in AppendsOf(t) : sink[k].row[7] = <<>>
            /\ Cardinality(AppendsOf(t)) <= 1

\* The texts of the model that do not hold "charter request" in any case.
TextsWithoutCharterRequest ==
    {text \in Texts : ~Contains(Lower(text), CharterRequest)}

\* C12: a thread whose text does not hold "charter request" ends ignored,
\* with no field extracted, and never calls append_to_sheet.
C12_PrefilterShortCircuits ==
    \A t \in 1..Len(threads) :
        threads[t].arg.some /\ threads[t].arg.s \in TextsWithoutCharterRequest =>
            /\ threads[t].pc # "append"
            /\ threads[t].pc = "done" => threads[t].outcome = "ignored"
            /\ threads[t].data = NoData
            /\ AppendsOf(t) = {}

\* The thread of a text with every required field but no "charter request"
\* has ended ignored, with nothing appended.
C12_Witness ==
    \E t \in 1..Len(threads) :
        /\ threads[t].arg = Str(TextNoPrefix)
        /\ threads[t].pc = "done"
        /\ threads[t].outcome = "ignored"
        /\ sink = <<>>

\* C13: every record handed to append_to_sheet and every row sent to the
\* sheet has a charter id that is not empty.
C13_CharterIdPresent ==
    /\ \A t \in 1..Len(threads) :
          threads[t].pc = "append" => threads[t].data.charter_id # <<>>
    /\ \A k \in 1..Len(sink) : Len(sink[k].row) = 7 /\ sink[k].row[2] # <<>>

\* A row has been sent with a charter id and an empty return date.
C13_Witness ==
    \E k \in 1..Len(sink) : sink[k].row[2] # <<>> /\ sink[k].row[7] = <<>>

\* The texts of the model whose name is a link annotation with the display
\* text "John Smith".
TextsWithLinkedName == {TextMailto, TextHttpLink}

\* C14: a name given as <link-target|John Smith>, whatever the link target,
\* is stored as "John Smith", with first name "John" and last name "Smith".
C14_LinkAnnotationStripped ==
    \A t \in 1..Len(threads) :
        /\ threads[t].arg.some /\ threads[t].arg.s \in TextsWithLinkedName
        /\ threads[t].pc # "start"
        => /\ threads[t].data.name = <<"J", "o", "h", "n", " ", "S", "m", "i", "t", "h">>
           /\ threads[t].data.first_name = <<"J", "o", "h", "n">>
           /\ threads[t].data.last_name = <<"S", "m", "i", "t", "h">>

\* The clock readings, as strftime prints them, at which a behaviour can
\* stamp a record.
Stamps ==
    {Strftime(s) : s \in StartSecond..(StartSecond + MaxTicks \div TicksPerSecond + 1)}

\* C15: every row sent has 7 columns: the time stamp, then the charter id,
\* first name, last name, phone, pick-up date and return date of the record
\* of the thread that sent it; for the text with every field these are the
\* values written in the text.
C15_RowLayout ==
    \A k \in 1..Len(sink) :
        /\ Len(sink[k].row) = 7
        /\ sink[k].row[1] \in Stamps
        /\ sink[k].row[1] = threads[sink[k].thread].data.request_received_date
        /\ sink[k].row[2] = threads[sink[k].thread].data.charter_id
        /\ sink[k].row[3] = threads[sink[k].thread].data.first_name
        /\ sink[k].row[4] = threads[sink[k].thread].data.last_name
        /\ sink[k].row[5] = threads[sink[k].thread].data.phone
        /\ sink[k].row[6] = threads[sink[k].thread].data.pick_up_date
        /\ sink[k].row[7] = threads[sink[k].thread].data.return_date
        /\ threads[sink[k].thread].arg = Str(TextFull) =>
              SubSeq(sink[k].row, 2, 7) =
                  << <<"1", "2", "3", "4">>, <<"J", "a", "n", "e">>, <<"D", "o", "e">>,
                     <<"5", "5", "5", "-", "1", "2", "3", "4">>,
                     <<"2", "0", "2", "4", "-", "0", "5", "-", "0", "1">>,
                     <<"2", "0", "2", "4", "-", "0", "5", "-", "0", "9">> >>

\* The row of the text with every field has been sent.
C15_Witness ==
    \E k \in 1..Len(sink) :
        /\ threads[sink[k].thread].arg = Str(TextFull)
        /\ sink[k].row[3] = <<"J", "a", "n", "e">>
        /\ sink[k].row[7] = <<"2", "0", "2", "4", "-", "0", "5", "-", "0", "9">>

\* The next step of thread t is enabled: parse_and_append when it has not
\* begun, append_to_sheet when the record is assembled.
CanStep(t) ==
    /\ threads[t].pc = "start" => ENABLED ParseAndAppend(t)
    /\ threads[t].pc = "append" => ENABLED AppendToSheet(t)

\* C16: two verified deliveries of the same message event have a thread
\* each, and each thread can take its next step, its append included,
\* whatever the other has done and whatever rows have been sent.
C16_NoDeduplication ==
    \A i, j \in 1..Len(requests) :
        /\ i # j
        /\ requests[i].body = requests[j].body
        /\ HumanMessagePost(i) /\ HumanMessagePost(j)
        => /\ requests[i].thread \in 1..Len(threads)
           /\ requests[j].thread \in 1..Len(threads)
           /\ requests[i].thread # requests[j].thread
           /\ CanStep(requests[i].thread)
           /\ CanStep(requests[j].thread)

\* The same message event delivered twice has had two rows sent, by two
\* threads, with the same charter id.
C16_Witness ==
    /\ Len(requests) = 2 /\ Len(sink) = 2
    /\ requests[1].body = BodyFull /\ requests[2].body = BodyFull
    /\ sink[1].thread # sink[2].thread
    /\ sink[1].result = "ok" /\ sink[2].result = "ok"
    /\ sink[1].row[2] = sink[2].row[2]

\* C17: a thread whose append call raised, or that found the credentials
\* unset or malformed, has ended in append_failed: it has made at most the
\* one call, none of its steps is enabled again, no row of it has been
\* accepted, and every other thread can still take its next step.
C17_SinkFailureContained ==
    \A t \in 1..Len(threads) :
        /\ (\E k \in AppendsOf(t) : sink[k].result = "error")
           => threads[t].pc = "done" /\ threads[t].outcome = "append_failed"
        /\ credentials # "valid" /\ threads[t].pc = "done" /\ threads[t].data # NoData
           => threads[t].outcome = "append_failed" /\ AppendsOf(t) = {}
        /\ threads[t].outcome = "append_failed"
           => /\ threads[t].pc = "done"
              /\ ~ENABLED ParseAndAppend(t)
              /\ ~ENABLED AppendToSheet(t)
              /\ Cardinality(AppendsOf(t)) <= 1
              /\ \A k \in AppendsOf(t) : sink[k].result = "error"
              /\ \A u \in 1..Len(threads) : CanStep(u)

\* After the append of a first thread has raised, a second request has been
\* answered and its row accepted.
C17_Witness ==
    /\ Len(threads) = 2 /\ Len(sink) = 2
    /\ threads[1].outcome = "append_failed"
    /\ sink[1].thread = 1 /\ sink[1].result = "error"
    /\ sink[2].thread = 2 /\ sink[2].result = "ok"
    /\ threads[2].outcome = "appended"
    /\ requests[threads[2].request].pc = "done"
    /\ requests[threads[2].request].response.status = 200

\* C18: of two threads neither waits for the other: while a thread has not
\* ended it can take its next step, wherever the threads started before it
\* and after it are.
C18_NoOrderBetweenThreads ==
    \A t, u \in 1..Len(threads) :
        t < u =>
            /\ threads[t].pc # "done" => CanStep(t)
            /\ threads[u].pc # "done" => CanStep(u)

\* Two message events were accepted in the order A, B and the row of B
\* has been sent before the row of A.
C18_Witness ==
    /\ Len(requests) = 2 /\ Len(sink) = 2
    /\ requests[1].body = BodyFull /\ requests[2].body = BodyNoReturn
    /\ threads[sink[1].thread].request = 2
    /\ threads[sink[2].thread].request = 1
    /\ sink[1].row[7] = <<>>
    /\ sink[2].row[7] # <<>>

\* C19: every thread started comes to its end, in one of the outcomes
\* ignored by the pre-filter, dropped for a missing required field, append
\* succeeded or append failed.
C19_ThreadsEndInAnOutcome ==
    <>[](\A t \in 1..Len(threads) :
            /\ threads[t].pc = "done"
            /\ threads[t].outcome \in {"ignored", "parse_failed", "appended", "append_failed"})

\* The requests for which line 199 starts a thread.
HumanMessagePosts == {i \in 1..Len(requests) : HumanMessagePost(i)}

\* C20: there are no more append calls than threads, and as many threads as
\* verified POSTs of message events without bot marker: each such request
\* has one thread, each thread is that of such a request and has made at
\* most one append call, and each append call is that of a thread.
C20_AppendsBoundedByThreads ==
    /\ Len(sink) <= Len(threads)
    /\ Len(threads) = Cardinality(HumanMessagePosts)
    /\ \A i \in HumanMessagePosts :
          Cardinality({t \in 1..Len(threads) : threads[t].request = i}) = 1
    /\ \A t \in 1..Len(threads) :
          /\ threads[t].request \in HumanMessagePosts
          /\ Cardinality(AppendsOf(t)) <= 1
    /\ \A k \in 1..Len(sink) : sink[k].thread \in 1..Len(threads)

\* Of two verified POSTs one was a message without bot marker: one thread,
\* one append call.
C20_Witness ==
    /\ Len(requests) = 2
    /\ VerifiedPost(1) /\ VerifiedPost(2)
    /\ Cardinality(HumanMessagePosts) = 1
    /\ Len(threads) = 1
    /\ Len(sink) = 1

====
